---- MODULE Spec2Model ----
(***************************************************************************)
(* machine-as-action: the response-plan compiler (normalizeResponses) and  *)
(* the per-request exit-to-response negotiation (_requestHandler /         *)
(* respondApropos / afterwards) of lib/machine-as-action.js.               *)
(***************************************************************************)
EXTENDS Integers, Sequences, FiniteSets, TLC

(***************************************************************************)
(* JavaScript values.  Every value is a record with the same three fields: *)
(*   t  the kind of value                                                   *)
(*   n  a number, scaled by Scale (so that 200.5 is representable)         *)
(*   s  a string                                                            *)
(***************************************************************************)

\* Resolution of the fixed-point numbers: the number x is stored as x * Scale.
Scale == 10

JS(t, n, s) == [t |-> t, n |-> n, s |-> s]

Undefined == JS("undefined", 0, "")

Null == JS("null", 0, "")

NaN == JS("nan", 0, "")

\* The whole number k.
Num(k) == JS("number", k * Scale, "")

\* The number k + f/Scale.
Frac(k, f) == JS("number", k * Scale + f, "")

Str(x) == JS("string", 0, x)

Bool(b) == JS("boolean", IF b THEN 1 ELSE 0, "")

\* A plain dictionary, e.g. {foo: 'bar'}.
Dict == JS("dict", 0, "")

\* An array with more than one item, e.g. [1, 2].
Arr == JS("array", 0, "")

IsUndefined(v) == v.t = "undefined"

IsNull(v) == v.t = "null"

IsString(v) == v.t = "string"

\* _.isNumber: typeof v === 'number' (NaN included).
IsNumber(v) == v.t \in {"number", "nan"}

IsNaN(v) == v.t = "nan"

IsPlainObject(v) == v.t = "dict"

\* JavaScript truthiness, as used by `if (x)` and `!x`.
Truthy(v) ==
  CASE v.t = "undefined" -> FALSE
    [] v.t = "null"      -> FALSE
    [] v.t = "nan"       -> FALSE
    [] v.t = "number"    -> v.n # 0
    [] v.t = "boolean"   -> v.n # 0
    [] v.t = "string"    -> v.s # ""
    [] OTHER             -> TRUE

\* The characters of the strings that the model uses as status codes.
CharsOf(s) ==
  CASE s = ""      -> << >>
    [] s = "404"   -> <<"4", "0", "4">>
    [] s = "99"    -> <<"9", "9">>
    [] s = "200.5" -> <<"2", "0", "0", ".", "5">>
    [] OTHER       -> <<"x">>

DigitValue(c) ==
  CASE c = "0" -> 0 [] c = "1" -> 1 [] c = "2" -> 2 [] c = "3" -> 3
    [] c = "4" -> 4 [] c = "5" -> 5 [] c = "6" -> 6 [] c = "7" -> 7
    [] c = "8" -> 8 [] c = "9" -> 9 [] OTHER -> -1

\* The value of a run of decimal digits, -1 when a character is no digit.
RECURSIVE DigitsValue(_)
DigitsValue(cs) ==
  IF cs = << >> THEN 0
  ELSE LET init == DigitsValue(SubSeq(cs, 1, Len(cs) - 1))
           d    == DigitValue(cs[Len(cs)])
       IN  IF init < 0 \/ d < 0 THEN -1 ELSE init * 10 + d

\* The position of the first "." of cs, 0 when there is none.
DotAt(cs) ==
  IF \E i \in 1..Len(cs) : cs[i] = "."
  THEN CHOOSE i \in 1..Len(cs) : cs[i] = "." /\ \A j \in 1..(i - 1) : cs[j] # "."
  ELSE 0

\* The number that the characters cs denote, their first "." being at dot.
ParseDecimal(cs, dot) ==
  IF cs = << >> THEN Num(0)
  ELSE IF dot = 0
  THEN IF DigitsValue(cs) < 0 THEN NaN ELSE Num(DigitsValue(cs))
  ELSE IF \/ DigitsValue(SubSeq(cs, 1, dot - 1)) < 0
          \/ Len(cs) # dot + 1
          \/ DigitValue(cs[Len(cs)]) < 0
       THEN NaN
       ELSE Frac(DigitsValue(SubSeq(cs, 1, dot - 1)),
                 (DigitValue(cs[Len(cs)]) * Scale) \div 10)

ParseChars(cs) == ParseDecimal(cs, DotAt(cs))

\* StringToNumber: "" is 0, a decimal literal (with at most one fractional
\* digit) is its value, anything else is NaN.
StringToNumber(s) == ParseChars(CharsOf(s))

\* The unary plus of `exitDef.statusCode = +exitDef.statusCode`.
ToNumber(v) ==
  CASE v.t = "number"    -> v
    [] v.t = "nan"       -> NaN
    [] v.t = "undefined" -> NaN
    [] v.t = "null"      -> Num(0)
    [] v.t = "boolean"   -> Num(v.n)
    [] v.t = "string"    -> StringToNumber(v.s)
    [] OTHER             -> NaN


(***************************************************************************)
(* Exit definitions and the response-plan compiler.                        *)
(***************************************************************************)

\* The exits of the modelled machine: the two reserved ones and a custom one.
ExitNames == {"success", "error", "whatever"}

\* The order in which _.reduce visits the exits: `success` and `error` first
\* (they are the base of the _.extend), then the others.
ExitOrder == <<"success", "error", "whatever">>

\* An exit definition with nothing but the given description.
ExitDef(description) ==
  [ description      |-> description,
    responseType     |-> Undefined,
    statusCode       |-> Undefined,
    viewTemplatePath |-> Undefined,
    view             |-> Undefined,
    viewPath         |-> Undefined,
    outputExample    |-> Undefined,
    example          |-> Undefined,
    like             |-> Undefined ]

\* The defaults that normalizeResponses extends with the machine's exits.
DefaultExits ==
  [ e \in {"success", "error"} |->
      IF e = "success" THEN ExitDef(Str("Done."))
      ELSE ExitDef(Str("Unexpected error occurred.")) ]

\* The code of every error that normalizeResponses raises with flaverr.
E_INVALID_RES_METADATA == "E_INVALID_RES_METADATA_IN_EXIT_DEF"

\* An Error thrown without a code (getOutputExample's consistency violations).
E_NO_CODE == "Error"

\* _.extend(exitDef, configuredResponses[exitCodeName]): every key of the
\* configured response overrides the exit definition's.
MergeConfigured(exitDef, configured) ==
  [ k \in DOMAIN exitDef |->
      IF k \in DOMAIN configured THEN configured[k] ELSE exitDef[k] ]

\* Backwards compatibility: `view`, else `viewPath`, becomes `viewTemplatePath`.
MigrateLegacyView(exitDef) ==
  IF ~IsUndefined(exitDef.view)
  THEN [exitDef EXCEPT !.viewTemplatePath = exitDef.view]
  ELSE IF ~IsUndefined(exitDef.viewPath)
  THEN [exitDef EXCEPT !.viewTemplatePath = exitDef.viewPath]
  ELSE exitDef

\* The response types that `afterwards` has a case for.
RecognizedResponseTypes ==
  { Str(""), Str("error"), Str("redirect"), Str("view"), Str("status"), Str("json") }

\* A stricter check, which the code does not make: the responseType is one of
\* the recognized ones.
ResponseTypeIsRecognized(exitDef) ==
  IsUndefined(exitDef.responseType) \/ exitDef.responseType \in RecognizedResponseTypes

\* The check of an explicit responseType: any string is allowed.
ResponseTypeIsValid(exitDef) ==
  IsUndefined(exitDef.responseType) \/ IsString(exitDef.responseType)

\* exitDef.statusCode = +exitDef.statusCode, for an explicit statusCode.
CoerceStatusCode(exitDef) ==
  IF IsUndefined(exitDef.statusCode) THEN exitDef
  ELSE [exitDef EXCEPT !.statusCode = ToNumber(exitDef.statusCode)]

\* The check of an explicit (coerced) statusCode.
StatusCodeIsValid(exitDef) ==
  \/ IsUndefined(exitDef.statusCode)
  \/ ~ ( \/ ~IsNumber(exitDef.statusCode)
         \/ IsNaN(exitDef.statusCode)
         \/ exitDef.statusCode.n < 100 * Scale
         \/ exitDef.statusCode.n > 599 * Scale )

\* The check of an explicit viewTemplatePath.
ViewTemplatePathIsValid(exitDef) ==
  \/ IsUndefined(exitDef.viewTemplatePath)
  \/ ~ ( \/ exitDef.viewTemplatePath = Str("")
         \/ ~IsString(exitDef.viewTemplatePath) )

\* Another inference, which the code does not make: the viewTemplatePath is not
\* looked at.
InferResponseTypeIgnoringView(exitCodeName, exitDef) ==
  IF IsUndefined(exitDef.responseType)
  THEN IF exitCodeName = "error" THEN Str("error") ELSE Str("")
  ELSE exitDef.responseType

\* Another inference, which the code does not make: the name of the exit is
\* looked at before its viewTemplatePath.
InferResponseTypeErrorFirst(exitCodeName, exitDef) ==
  IF IsUndefined(exitDef.responseType)
  THEN IF exitCodeName = "error" THEN Str("error")
       ELSE IF Truthy(exitDef.viewTemplatePath) THEN Str("view")
       ELSE Str("")
  ELSE exitDef.responseType

\* The responseType of the exit: the explicit one, else the inferred one.
InferResponseType(exitCodeName, exitDef) ==
  IF IsUndefined(exitDef.responseType)
  THEN IF Truthy(exitDef.viewTemplatePath) THEN Str("view")
       ELSE IF exitCodeName = "error" THEN Str("error")
       ELSE Str("")
  ELSE exitDef.responseType

\* Another inference, which the code does not make: a redirect is looked at
\* before the error type and the error exit.
InferStatusCodeRedirectFirst(exitCodeName, exitDef) ==
  IF ~Truthy(exitDef.statusCode)
  THEN IF exitDef.responseType = Str("redirect") THEN Num(302)
       ELSE IF exitDef.responseType = Str("error") \/ exitCodeName = "error" THEN Num(500)
       ELSE IF exitCodeName = "success" THEN Num(200)
       ELSE IF exitDef.responseType = Str("view") THEN Num(200)
       ELSE Num(500)
  ELSE exitDef.statusCode

\* The statusCode of the exit: the explicit one, else the inferred one.
InferStatusCode(exitCodeName, exitDef) ==
  IF ~Truthy(exitDef.statusCode)
  THEN IF exitDef.responseType = Str("error") \/ exitCodeName = "error" THEN Num(500)
       ELSE IF exitDef.responseType = Str("redirect") THEN Num(302)
       ELSE IF exitCodeName = "success" THEN Num(200)
       ELSE IF exitDef.responseType = Str("view") THEN Num(200)
       ELSE Num(500)
  ELSE exitDef.statusCode

\* getOutputExample({exitDef: exitDef}): whether it throws (`like`, `itemOf`
\* and `getExample` are not supported; the model's exits use `like`).
GetOutputExampleThrows(exitDef) == ~IsUndefined(exitDef.like)

\* getOutputExample({exitDef: exitDef}): the exit's outputExample.  (The
\* model's exits declare no `outputType`.)
GetOutputExample(exitDef) ==
  IF ~IsUndefined(exitDef.outputExample) THEN exitDef.outputExample
  ELSE Undefined

\* A laxer check, which the code does not make: a redirect with any example.
ResponseTypeIsCompatibleAnyRedirect(exitDef, outputExample) ==
  IF exitDef.responseType = Str("view")
  THEN ~( /\ ~IsUndefined(outputExample)
          /\ outputExample # Str("===")
          /\ ~IsPlainObject(outputExample) )
  ELSE TRUE

\* A stricter check, which the code does not make: a view whose example is the
\* string '===' is refused like any other string.
ResponseTypeIsCompatibleStrictView(exitDef, outputExample) ==
  IF exitDef.responseType = Str("redirect")
  THEN ~(~IsUndefined(outputExample) /\ ~IsString(outputExample))
  ELSE IF exitDef.responseType = Str("view")
  THEN ~(~IsUndefined(outputExample) /\ ~IsPlainObject(outputExample))
  ELSE TRUE

\* Whether the responseType is compatible with the output example.
ResponseTypeIsCompatible(exitDef, outputExample) ==
  IF exitDef.responseType = Str("redirect")
  THEN ~(~IsUndefined(outputExample) /\ ~IsString(outputExample))
  ELSE IF exitDef.responseType = Str("view")
  THEN ~( /\ ~IsUndefined(outputExample)
          /\ outputExample # Str("===")
          /\ ~IsPlainObject(outputExample) )
  ELSE IF exitDef.responseType = Str("json")
  THEN ~(~IsUndefined(outputExample) /\ IsUndefined(outputExample))
  ELSE TRUE

\* A redirect exit with no output example is given a string one.
MaterializeRedirectExample(exitDef, outputExample) ==
  IF exitDef.responseType = Str("redirect") /\ IsUndefined(outputExample)
  THEN [exitDef EXCEPT !.outputExample = Str("/some/other/place"),
                       !.example = Str("/some/other/place")]
  ELSE exitDef

\* What one iteration of the _.reduce leaves: the exit definition, and the code
\* of the error thrown (err = "" when none is).
Thrown(code, exitDef) == [err |-> code, def |-> exitDef]

Normalized(exitDef) == [err |-> "", def |-> exitDef]

\* The merge of the configured response into the exit definition.
Merged(exitCodeName, exitDef, configured) ==
  IF exitCodeName \in DOMAIN configured
  THEN MergeConfigured(exitDef, configured[exitCodeName])
  ELSE exitDef

\* The unspecified responseType and statusCode set to their defaults.
WithResponseType(exitCodeName, exitDef) ==
  [exitDef EXCEPT !.responseType = InferResponseType(exitCodeName, exitDef)]

WithStatusCode(exitCodeName, exitDef) ==
  [exitDef EXCEPT !.statusCode = InferStatusCode(exitCodeName, exitDef)]

\* The check of the response type against the output example.
CrossValidate(exitDef) ==
  IF GetOutputExampleThrows(exitDef)
    THEN Thrown(E_NO_CODE, exitDef)
  ELSE IF ~ResponseTypeIsCompatible(exitDef, GetOutputExample(exitDef))
    THEN Thrown(E_INVALID_RES_METADATA, exitDef)
  ELSE Normalized(MaterializeRedirectExample(exitDef, GetOutputExample(exitDef)))

\* The checks of the explicit metadata, then the defaults and the cross-check.
ValidateAndDefault(exitCodeName, exitDef) ==
  IF ~ResponseTypeIsValid(exitDef)
    THEN Thrown(E_INVALID_RES_METADATA, exitDef)
  ELSE IF ~StatusCodeIsValid(exitDef)
    THEN Thrown(E_INVALID_RES_METADATA, exitDef)
  ELSE IF ~ViewTemplatePathIsValid(exitDef)
    THEN Thrown(E_INVALID_RES_METADATA, exitDef)
  ELSE CrossValidate(WithStatusCode(exitCodeName, WithResponseType(exitCodeName, exitDef)))

\* One iteration of the _.reduce of normalizeResponses.
NormalizeExit(exitCodeName, exitDef, configured) ==
  ValidateAndDefault(exitCodeName,
    CoerceStatusCode(MigrateLegacyView(Merged(exitCodeName, exitDef, configured))))

\* What the code avoids: the plan is made of the declared exits alone.
WithoutDefaultExits(exitDefs) == exitDefs

\* _.extend({success: ..., error: ...}, exits)
WithDefaultExits(exitDefs) ==
  [ e \in DOMAIN exitDefs \cup DOMAIN DefaultExits |->
      IF e \in DOMAIN exitDefs THEN exitDefs[e] ELSE DefaultExits[e] ]

\* The positions, in the order of the reduce, of the exits whose iteration throws.
Failing(each) ==
  { i \in 1..Len(ExitOrder) :
      ExitOrder[i] \in DOMAIN each /\ each[ExitOrder[i]].err # "" }

\* The least of a non-empty set of positions.
Least(positions) == CHOOSE i \in positions : \A j \in positions : i <= j

\* The result of the reduce: the code of the first error thrown ("" when none
\* is), the exit that threw, the plan, and the exit definitions as the reduce
\* leaves them (it mutates them in place, up to the exit that throws).
ReduceResult(all, each, failing) ==
  [ err  |-> IF failing = {} THEN "" ELSE each[ExitOrder[Least(failing)]].err,
    exit |-> IF failing = {} THEN "" ELSE ExitOrder[Least(failing)],
    responses |-> [ e \in DOMAIN all |-> each[e].def ],
    mutated |-> [ e \in DOMAIN all |->
                   IF failing = {} \/ (\E i \in 1..Least(failing) : ExitOrder[i] = e)
                   THEN each[e].def ELSE all[e] ] ]

ReduceExits(all, each) == ReduceResult(all, each, Failing(each))

NormalizeAll(configured, all) ==
  ReduceExits(all, [ e \in DOMAIN all |-> NormalizeExit(e, all[e], configured) ])

\* normalizeResponses(configuredResponses, exits)
NormalizeResponses(configured, exitDefs) ==
  NormalizeAll(configured, WithDefaultExits(exitDefs))

(***************************************************************************)
(* Runtime output values and the response object.                          *)
(***************************************************************************)

\* An Error instance; with or without a custom toJSON method.
ErrorObj(hasToJSON) == JS("error", 0, IF hasToJSON THEN "toJSON" ELSE "")

\* The machine runner's invalid-arguments error (name 'UsageError', code
\* 'E_INVALID_ARGINS'); its `problems` is an array or, if malformed, is not.
UsageError(problemsIsArray) ==
  JS("usageError", IF problemsIsArray THEN 1 ELSE 0, "E_INVALID_ARGINS")

\* An Error with the code E_INTERNAL_ERROR, whose `raw` is an Error.
InternalError == JS("error", 0, "E_INTERNAL_ERROR")

\* A readable stream, a Buffer, a function.
StreamObj == JS("stream", 0, "")

BufferObj == JS("buffer", 0, "")

FunctionObj == JS("function", 0, "")

\* _.isError
IsError(v) == v.t \in {"error", "usageError"}

\* _.isFunction(output.toJSON)
HasToJSON(v) == v.t = "error" /\ v.s = "toJSON"

IsArray(v) == v.t = "array"

IsFunction(v) == v.t = "function"

\* _.isObject: anything that is not a primitive.
IsObject(v) == v.t \in {"dict", "array", "function", "error", "usageError", "stream", "buffer"}

\* output instanceof Stream, output instanceof Buffer
IsStream(v) == v.t = "stream"

IsBuffer(v) == v.t = "buffer"

\* Reading a property of undefined or null raises a TypeError.
PropertyReadThrows(v) == IsUndefined(v) \/ IsNull(v)

\* A response on which nothing was written yet.
FreshRes ==
  [ headersSent |-> FALSE,
    finished    |-> FALSE,
    statusCode  |-> Num(200),
    headers     |-> {},
    body        |-> "",
    payload     |-> Undefined,
    calls       |-> << >> ]

\* res.status(code)
ResStatus(res, code) == [res EXCEPT !.statusCode = code]

\* res.set(name, value)
ResSet(res, name, value) ==
  [res EXCEPT !.headers = { h \in @ : h[1] # name } \cup { <<name, value>> }]

\* A response method that writes the head and the body and ends the response.
ResRespond(res, call, body, payload) ==
  [res EXCEPT !.headersSent = TRUE,
              !.finished    = TRUE,
              !.body        = body,
              !.payload     = payload,
              !.calls       = Append(@, call)]

\* res.end() on a response whose head is already written.
ResEnd(res) == [res EXCEPT !.finished = TRUE, !.calls = Append(@, "end")]

\* What a step of `afterwards` leaves: the response, the reason of the
\* exception it threw ("" when it returned) and the branch it took.
Outcome(res, threw, strategy) == [res |-> res, threw |-> threw, strategy |-> strategy]

\* The reasons for which a strategy, or the code before it, throws.
HEADERS_SENT == "headersSent"

\* A method of the host framework that sets headers (send with a body, json,
\* sendStatus, redirect): it throws once the headers are sent.
HostWrite(res, call, body, payload, strategy) ==
  IF res.headersSent THEN Outcome(res, HEADERS_SENT, strategy)
  ELSE Outcome(ResRespond(res, call, body, payload), "", strategy)

\* A method that the application or the framework supplies (view, serverError,
\* badRequest, a custom response) or a res.send() without a body: on a
\* response whose headers are sent it throws, unless the host tolerates it.
CollaboratorWrite(res, call, body, payload, strategy, tolerant) ==
  IF res.headersSent
  THEN IF tolerant THEN Outcome([res EXCEPT !.calls = Append(@, call)], "", strategy)
       ELSE Outcome(res, HEADERS_SENT, strategy)
  ELSE Outcome(ResRespond(res, call, body, payload), "", strategy)

\* What the host does not do: a res.sendStatus(code) that writes the head only.
ResSendStatusNoBody(res, code, strategy) ==
  HostWrite(ResStatus(res, code), "sendStatus", "", Undefined, strategy)

\* res.sendStatus(code): the text of the status is the body.
ResSendStatus(res, code, strategy) ==
  HostWrite(ResStatus(res, code), "sendStatus", "status text", Undefined, strategy)


(***************************************************************************)
(* The host: what the request and response objects offer.  The code reads  *)
(* these properties when it dispatches; the model draws them at that time. *)
(***************************************************************************)

\* res[declaredResponseType]: undefined, not a function, a function that
\* responds, a function that throws.
DynStates == {"missing", "notFunction", "ok", "throws"}

Hosts ==
  [ redirect    : BOOLEAN,     \* _.isFunction(res.redirect)
    view        : BOOLEAN,     \* _.isFunction(res.view)
    serverError : BOOLEAN,     \* _.isFunction(res.serverError)
    badRequest  : BOOLEAN,     \* _.isFunction(res.badRequest)
    socket      : BOOLEAN,     \* req._sails && req.isSocket
    dyn         : DynStates,
    tolerant    : BOOLEAN ]    \* see CollaboratorWrite

(***************************************************************************)
(* The encoding strategies (the cases of the switch of `afterwards`).      *)
(***************************************************************************)

\* What the code avoids: every output is sent as JSON, a string between quotes.
SendDehydratedAsJson(res, output) ==
  HostWrite(res, "send", "json", output, "standard")

\* rttc.dehydrate(output) then res.send(dehydrated): a string is sent as it
\* is, anything else is sent as JSON.
SendDehydrated(res, output) ==
  IF IsString(output) THEN HostWrite(res, "send", "text", output, "standard")
  ELSE HostWrite(res, "send", "json", output, "standard")

\* What the code avoids: res.send(number) takes the number for the status code.
SendNumberAsStatus(res, entry, output) ==
  HostWrite(ResStatus(res, output), "send", "status text", Undefined, "standard")

\* A number is sent with res.json, so that it is not taken for a status code.
SendNumber(res, entry, output) ==
  HostWrite(ResStatus(res, entry.statusCode), "json", "json", output, "standard")

\* case '': the standard response.
StandardStrategy(res, entry, output, production, host) ==
  IF res.finished
    THEN CollaboratorWrite(res, "send", "", Undefined, "standard", host.tolerant)
  ELSE IF res.headersSent
    THEN Outcome(ResEnd(res), "", "standard")
  ELSE IF IsUndefined(output) \/ IsNull(output)
    THEN ResSendStatus(res, entry.statusCode, "standard")
  ELSE IF IsError(output)
    THEN IF ~HasToJSON(output)
         THEN IF production
              THEN ResSendStatus(ResStatus(res, entry.statusCode), entry.statusCode, "standard")
              ELSE HostWrite(ResStatus(res, entry.statusCode), "send", "inspect", output, "standard")
         ELSE HostWrite(ResStatus(res, entry.statusCode), "json", "json", output, "standard")
  ELSE IF IsStream(output) \/ IsBuffer(output)
    THEN Outcome([ResStatus(res, entry.statusCode) EXCEPT !.calls = Append(@, "pipe")],
                 "", "standard")
  ELSE IF IsNumber(output)
    THEN SendNumber(res, entry, output)
  ELSE SendDehydrated(ResStatus(res, entry.statusCode), output)

\* What the code avoids: a redirect that leaves the status code to the host.
RedirectStrategyWithoutStatus(res, entry, output, host) ==
  IF ~host.redirect /\ ~host.socket
    THEN Outcome(res, "noRedirect", "redirect")
  ELSE IF ~host.redirect
    THEN Outcome(res, "notAFunction", "redirect")
  ELSE HostWrite(ResStatus(res, Num(302)), "redirect", "redirect", output, "redirect")

\* case 'redirect'
RedirectStrategy(res, entry, output, host) ==
  IF ~host.redirect /\ ~host.socket
    THEN Outcome(res, "noRedirect", "redirect")
  ELSE IF ~host.redirect
    THEN Outcome(ResStatus(res, entry.statusCode), "notAFunction", "redirect")
  ELSE HostWrite(ResStatus(res, entry.statusCode), "redirect", "redirect", output, "redirect")

\* case 'view'
ViewStrategy(res, entry, output, host) ==
  IF ~host.view /\ ~host.socket
    THEN Outcome(res, "noView", "view")
  ELSE IF IsUndefined(output) \/ IsNull(output)
    THEN IF ~host.view
         THEN Outcome(ResStatus(res, entry.statusCode), "notAFunction", "view")
         ELSE CollaboratorWrite(ResStatus(res, entry.statusCode), "view", "view",
                                Undefined, "view", host.tolerant)
  ELSE IF IsObject(output) /\ ~IsArray(output) /\ ~IsFunction(output)
    THEN IF ~host.view
         THEN Outcome(ResStatus(res, entry.statusCode), "notAFunction", "view")
         ELSE CollaboratorWrite(ResStatus(res, entry.statusCode), "view", "view",
                                output, "view", host.tolerant)
  ELSE Outcome(ResStatus(res, entry.statusCode), "viewLocals", "view")

\* The error built when the error strategy gets no output.
SynthesizedError == JS("error", 0, "synthesized")

\* The error built from the `raw` of an internal error, without the stack trace
\* from inside this package.
AdjustedInternalError == JS("error", 0, "adjusted")

\* The argument of res.serverError(): the output, unless there is none or it is
\* an internal error.
CatchallErr(output) ==
  IF IsUndefined(output) THEN SynthesizedError
  ELSE IF output = InternalError THEN AdjustedInternalError
  ELSE output

\* case 'error': res.serverError() responds with the status 500.
ErrorStrategy(res, output, host) ==
  IF ~host.serverError
    THEN Outcome(res, "noServerError", "error")
  ELSE IF IsNull(output)
    THEN Outcome(res, "typeError", "error")
  ELSE CollaboratorWrite(ResStatus(res, Num(500)), "serverError", "serverError",
                         CatchallErr(output), "error", host.tolerant)

\* case 'status' (deprecated)
StatusStrategy(res, entry, host) ==
  CollaboratorWrite(ResStatus(res, entry.statusCode), "send", "", Undefined,
                    "status", host.tolerant)

\* case 'json' (deprecated)
JsonStrategy(res, entry, output) ==
  HostWrite(ResStatus(res, entry.statusCode), "json", "json", output, "json")

\* What the code avoids: the method is looked for only when it is called, and
\* a null output is passed as it is.
DynamicStrategyUnchecked(res, entry, output, host) ==
  IF host.dyn = "throws"
    THEN Outcome(ResStatus(res, entry.statusCode), "dynamicThrew", "dynamic")
  ELSE CollaboratorWrite(ResStatus(res, entry.statusCode), "dynamic", "dynamic",
                         output, "dynamic", host.tolerant)

\* default: a response method named by the responseType.
DynamicStrategy(res, entry, output, host) ==
  IF host.dyn = "missing"
    THEN Outcome(res, "dynamicMissing", "dynamic")
  ELSE IF host.dyn = "notFunction"
    THEN Outcome(res, "dynamicNotFunction", "dynamic")
  ELSE IF host.dyn = "throws"
    THEN Outcome(ResStatus(res, entry.statusCode), "dynamicThrew", "dynamic")
  ELSE CollaboratorWrite(ResStatus(res, entry.statusCode), "dynamic", "dynamic",
                         IF IsNull(output) THEN Undefined ELSE output,
                         "dynamic", host.tolerant)

\* switch (responses[exitCodeName].responseType)
Strategy(res, entry, output, production, host) ==
  CASE entry.responseType = Str("")         -> StandardStrategy(res, entry, output, production, host)
    [] entry.responseType = Str("redirect") -> RedirectStrategy(res, entry, output, host)
    [] entry.responseType = Str("view")     -> ViewStrategy(res, entry, output, host)
    [] entry.responseType = Str("error")    -> ErrorStrategy(res, output, host)
    [] entry.responseType = Str("status")   -> StatusStrategy(res, entry, host)
    [] entry.responseType = Str("json")     -> JsonStrategy(res, entry, output)
    [] OTHER                                -> DynamicStrategy(res, entry, output, host)


(***************************************************************************)
(* `afterwards`: the body of every exit callback.                          *)
(***************************************************************************)

\* The development headers, on a response that has its X-Exit header (or not).
\* (The model's exits have a description and no other descriptive metadata.)
WithDescription(res, entry) ==
  IF Truthy(entry.description)
  THEN ResSet(res, "X-Exit-Description", entry.description.s)
  ELSE res

DevHeaders(res, entry, output) ==
  IF entry.responseType = Str("") /\ ~IsUndefined(output)
    THEN Outcome(res, "", "")
  ELSE IF entry.responseType = Str("view")
    THEN IF PropertyReadThrows(entry.viewTemplatePath)
         THEN Outcome(res, "typeError", "")
         ELSE Outcome(ResSet(res, "X-Exit-View-Template-Path", entry.viewTemplatePath.s),
                      "", "")
  ELSE Outcome(res, "", "")

WithXExit(res, exitCodeName, opts) ==
  IF ~opts.disableXExitHeader THEN ResSet(res, "X-Exit", exitCodeName) ELSE res

\* What the code avoids: no header at all in production.
SetNoHeaderInProduction(res, exitCodeName, entry, output, opts, production) ==
  IF res.headersSent \/ production THEN Outcome(res, "", "")
  ELSE IF opts.disableDevelopmentHeaders
    THEN Outcome(WithXExit(res, exitCodeName, opts), "", "")
  ELSE DevHeaders(WithDescription(WithXExit(res, exitCodeName, opts), entry), entry, output)

\* The X-Exit header and, in development, the headers that describe the exit.
SetDiagnosticHeaders(res, exitCodeName, entry, output, opts, production) ==
  IF res.headersSent THEN Outcome(res, "", "")
  ELSE IF ~(~production /\ ~opts.disableDevelopmentHeaders)
    THEN Outcome(WithXExit(res, exitCodeName, opts), "", "")
  ELSE DevHeaders(WithDescription(WithXExit(res, exitCodeName, opts), entry), entry, output)

\* exitCodeName === 'error' && output.name === 'UsageError' &&
\* output.code === 'E_INVALID_ARGINS'
IsValidationError(exitCodeName, output) ==
  exitCodeName = "error" /\ output.t = "usageError"

\* The error with code E_MISSING_OR_INVALID_PARAMS, carrying the problems.
ValidationErr == JS("error", 1, "E_MISSING_OR_INVALID_PARAMS")

\* The 400 response to a runtime validation error.
ValidationResponse(res, output, host) ==
  IF output.n # 1
    THEN Outcome(res, "problemsNotArray", "validation")
  ELSE IF host.badRequest
    THEN CollaboratorWrite(ResStatus(res, Num(400)), "badRequest", "badRequest",
                           ValidationErr, "validation", host.tolerant)
  ELSE HostWrite(ResStatus(res, Num(400)), "json", "json", ValidationErr, "validation")

\* What the code avoids: the message is sent in production too.
FallbackWithMessage(res, production) ==
  HostWrite(ResStatus(res, Num(500)), "send", "errMsg", Undefined, "fallback")

\* The catch block: a 500 with the message, or a bare 500 in production.
Fallback(res, production) ==
  IF production THEN ResSendStatus(res, Num(500), "fallback")
  ELSE HostWrite(ResStatus(res, Num(500)), "send", "errMsg", Undefined, "fallback")

\* The try block of `afterwards`, after the headers.
AfterHeaders(hdr, exitCodeName, entry, output, production, host) ==
  IF hdr.threw # "" THEN hdr
  ELSE IF exitCodeName = "error" /\ PropertyReadThrows(output)
    THEN Outcome(hdr.res, "typeError", "")
  ELSE IF IsValidationError(exitCodeName, output)
    THEN ValidationResponse(hdr.res, output, host)
  ELSE Strategy(hdr.res, entry, output, production, host)

\* The try block of `afterwards`.
TryRespond(res, exitCodeName, entry, output, opts, production, host) ==
  AfterHeaders(SetDiagnosticHeaders(res, exitCodeName, entry, output, opts, production),
               exitCodeName, entry, output, production, host)

\* The catch block, for the exception that the try block threw.
Caught(tried, fell) ==
  [res |-> fell.res, threw |-> tried.threw, strategy |-> tried.strategy,
   raised |-> fell.threw # ""]

\* What `afterwards` leaves, given what its try block leaves.
Settle(tried, production) ==
  IF tried.threw = ""
  THEN [res |-> tried.res, threw |-> "", strategy |-> tried.strategy, raised |-> FALSE]
  ELSE Caught(tried, Fallback(tried.res, production))

\* afterwards(): what it leaves of the response, the exception it caught
\* (threw), the branch taken, and whether an exception left the catch block.
Afterwards(res, exitCodeName, entry, output, opts, production, host) ==
  Settle(TryRespond(res, exitCodeName, entry, output, opts, production, host), production)

(***************************************************************************)
(* The arguments of the machine (argins), built from the request.          *)
(***************************************************************************)

\* The names of the inputs that the machines of the model declare.
InputNames == {"star", "x"}

\* inputDef.type
InputTypes == { Str("string"), Str("number"), Str("boolean") }

\* machineDef.inputs: each input is declared, with a type, or is not.
InputSets ==
  UNION { [ declared -> [ type : InputTypes ] ] : declared \in SUBSET InputNames }

\* obj[name]
Lookup(obj, name) == IF name \in DOMAIN obj THEN obj[name] ELSE Undefined

\* The requests: the match groups of the route (req.params; "0" is the one of a
\* wildcard suffix), the body, the query string, and whether req.file exists.
\* The parameter y matches no input of the model.
Reqs ==
  [ params : { p \in [ {"x", "0"} -> { Undefined, Str(""), Str("of the route"), Str("foo/bar") } ] :
                 /\ p["x"] # Str("foo/bar")
                 /\ p["0"] \in { Undefined, Str("foo/bar") } },
    body   : [ {"x", "y"} -> { Undefined, Str(""), Str("of the body") } ],
    query  : [ {"star", "x"} -> { Undefined, Str(""), Str("of the query") } ],
    file   : BOOLEAN ]

\* req.param(name): the match group of the route, else the parameter of the
\* body, else the one of the query string.
ReqParam(req, name) ==
  IF ~IsUndefined(Lookup(req.params, name)) /\ ~IsNull(Lookup(req.params, name))
    THEN Lookup(req.params, name)
  ELSE IF ~IsUndefined(Lookup(req.body, name)) /\ ~IsNull(Lookup(req.body, name))
    THEN Lookup(req.body, name)
  ELSE Lookup(req.query, name)

\* options.urlWildcardSuffix && options.urlWildcardSuffix === inputCodeName
IsWildcardSuffix(opts, inputCodeName) ==
  Truthy(opts.urlWildcardSuffix) /\ opts.urlWildcardSuffix = Str(inputCodeName)

\* What the code avoids: an empty string counts wherever it comes from.
EmptyInAnyPart(req, inputCodeName) == ReqParam(req, inputCodeName) = Str("")

\* req.query && req.query[inputCodeName] === ''
EmptyInQuery(req, inputCodeName) == Lookup(req.query, inputCodeName) = Str("")

\* The parameter of an input: the wildcard match for the input that
\* urlWildcardSuffix names, the parameter of its own name for any other.
Parameter(req, opts, inputCodeName) ==
  IF IsWildcardSuffix(opts, inputCodeName) THEN ReqParam(req, "0")
  ELSE ReqParam(req, inputCodeName)

\* memo[inputCodeName], for the inputs that stay in memo.
Argin(req, opts, inputDef, inputCodeName) ==
  IF inputDef.type = Str("boolean") /\ EmptyInQuery(req, inputCodeName) THEN Bool(TRUE)
  ELSE Parameter(req, opts, inputCodeName)

\* delete memo[inputCodeName]
Deleted(req, inputDef, inputCodeName) ==
  inputDef.type = Str("number") /\ EmptyInQuery(req, inputCodeName)

\* What the code avoids: every parameter of the request is passed on.
ReduceAllParameters(req, opts, inputDefs) ==
  [ n \in InputNames \cup {"y"} |-> ReqParam(req, n) ]

\* _.reduce(wetMachine.getDef().inputs, function (memo, inputDef, inputCodeName) {...}, {})
ReduceInputs(req, opts, inputDefs) ==
  [ n \in { m \in DOMAIN inputDefs : ~Deleted(req, inputDefs[m], m) }
      |-> Argin(req, opts, inputDefs[n], n) ]

\* req.file(fileParamName)
Upstream(fileParamName) == JS("upstream", 0, fileParamName)

\* The keys of options.files.
FileParamNames(opts) == { opts.files.names[i] : i \in 1..Len(opts.files.names) }

\* argins[fileParamName] = req.file(fileParamName), for each of options.files.
WithFiles(argins, opts) ==
  IF opts.files.isArray
  THEN [ n \in DOMAIN argins \cup FileParamNames(opts) |->
           IF n \in FileParamNames(opts) THEN Upstream(n) ELSE argins[n] ]
  ELSE argins

\* What the code avoids: the upstreams are handed over with no listener.
ErrorListenersOfNone(opts) == {}

\* argins[fileParamName].on('error', ...), for each of options.files.
ErrorListeners(opts) == IF opts.files.isArray THEN FileParamNames(opts) ELSE {}

\* The handler throws: the `files` option is used and req.file does not exist.
NeedsReqFile(req, opts) == opts.files.isArray /\ ~req.file

\* argins, as they are passed to the machine.
BuildArgins(req, opts, inputDefs) == WithFiles(ReduceInputs(req, opts, inputDefs), opts)

\* A request in which nothing depends on the route.
UsualRequest ==
  [ params |-> [ n \in {"x", "0"} |-> IF n = "0" THEN Str("foo/bar") ELSE Undefined ],
    body   |-> [ n \in {"x", "y"} |-> Str("of the body") ],
    query  |-> [ n \in {"star", "x"} |-> Str("of the query") ],
    file   |-> TRUE ]

\* The requests that differ in what the handler reads of them for these
\* inputs and options; what it does not read is as in UsualRequest.
ReqsFor(inputDefs, opts) ==
  { req \in Reqs :
      /\ ("x" \notin DOMAIN inputDefs =>
            /\ req.params["x"] = UsualRequest.params["x"]
            /\ req.body["x"] = UsualRequest.body["x"]
            /\ req.query["x"] = UsualRequest.query["x"])
      /\ req.body["y"] = UsualRequest.body["y"]
      /\ ("star" \notin DOMAIN inputDefs => req.query["star"] = UsualRequest.query["star"])
      /\ (~(\E n \in DOMAIN inputDefs : IsWildcardSuffix(opts, n))
            => req.params["0"] = UsualRequest.params["0"])
      /\ (~opts.files.isArray => req.file = UsualRequest.file) }

(***************************************************************************)
(* State.                                                                  *)
(***************************************************************************)

VARIABLES
  machineDef,               \* what the caller passes to machineAsAction()
  inputs,                   \* machineDef.inputs
  given,                    \* machineDef.exits as the caller wrote them (history)
  exits,                    \* machineDef.exits
  configuredResponses,      \* options.responses
  options,                  \* simulateLatency, disableXExitHeader, ...
  IS_RUNNING_IN_PRODUCTION, \* process.env.NODE_ENV === 'production'
  built,                    \* "pending", "ok", or the code of the error thrown
  responses,                \* the compiled response plan
  action,                   \* the handler that machineAsAction() returned, if any
  wrappedAgain,             \* what machineAsAction(action) gave: "pending", "ok", a code
  live,                     \* the requests that the router will deliver
  rq                        \* the state of every request

vars == <<machineDef, inputs, given, exits, configuredResponses, options,
          IS_RUNNING_IN_PRODUCTION, built, responses, action, wrappedAgain, live, rq>>

\* What machineAsAction() builds; handling a request leaves it as it is.
route == <<machineDef, inputs, given, exits, configuredResponses, options,
           IS_RUNNING_IN_PRODUCTION, built, responses, action, wrappedAgain, live>>

\* The requests that may be in flight on the route.
Requests == {"r1", "r2"}

\* The number of times the implementation may call an exit for one request.
MaxExitCalls == 2

\* A request that the router has not delivered yet.
IdleRequest ==
  [ pc             |-> "idle",
    exitAttempts   |-> << >>,      \* the spinlock of _requestHandler
    output         |-> Undefined,  \* the output that `afterwards` closes over
    res            |-> FreshRes,
    threw          |-> "",         \* the exception caught by `afterwards`
    strategy       |-> "",         \* the branch of `afterwards` that ran
    warnings       |-> << >>,      \* the console.warn of every ignored exit
    strm           |-> "none",     \* the piping of a stream output
    errors         |-> << >>,      \* what the listener of the stream's error logged
    uncaught       |-> FALSE,      \* an `error` event was emitted with no listener
    argins         |-> << >>,      \* the arguments passed to the machine
    \* history, for the properties:
    req            |-> << >>,      \* the request that was delivered
    refusedFor     |-> "",         \* what the handler missed when it threw
    listening      |-> {},         \* the upstreams that have a listener of `error`
    upstreamErrors |-> << >>,      \* the upstream errors that the listeners logged
    capability     |-> << >>,      \* res[responseType] as `afterwards` found it
    notified       |-> << >>,      \* every exit called, in order
    runs           |-> << >>,      \* the exits for which `afterwards` ran
    sentAtDispatch |-> FALSE ]     \* res.headersSent when `afterwards` began

\* The values that the implementation passes to an exit.
Outputs ==
  { Undefined, Null, Num(404), Str("hello world!"), Dict, Arr,
    ErrorObj(FALSE), ErrorObj(TRUE), InternalError, UsageError(TRUE), UsageError(FALSE),
    StreamObj, BufferObj, FunctionObj }

(***************************************************************************)
(* Actions.                                                                *)
(***************************************************************************)

\* machineAsAction(): ensure the success and error exits, compile the plan.
EnsureExits(exitDefs) ==
  [ e \in DOMAIN exitDefs \cup {"error", "success"} |->
      IF e \in DOMAIN exitDefs THEN exitDefs[e]
      ELSE IF e = "error" THEN ExitDef(Str("An unexpected error occurred."))
      ELSE ExitDef(Str("Done.")) ]

\* A machine definition, as far as machineAsAction() looks at what it is: a
\* dictionary, or a function with or without the marks of a handler built by
\* this package and of a wet machine.
MachineDefs ==
  { d \in [ isFunction : BOOLEAN, IS_MACHINE_AS_ACTION : BOOLEAN, isWetMachine : BOOLEAN ] :
      ~d.isFunction => (~d.IS_MACHINE_AS_ACTION /\ ~d.isWetMachine) }

\* A machine definition written as a dictionary.
Dictionary ==
  [ isFunction |-> FALSE, IS_MACHINE_AS_ACTION |-> FALSE, isWetMachine |-> FALSE ]

E_DOUBLE_WRAP == "E_DOUBLE_WRAP"

E_INVALID_MACHINE_DEF == "E_INVALID_MACHINE_DEF"

\* What the code avoids: a handler is taken for any other function.
RefuseFunctionWhateverItsMark(def) ==
  IF def.isFunction
  THEN IF def.isWetMachine THEN "" ELSE E_INVALID_MACHINE_DEF
  ELSE ""

\* if (_.isFunction(machineDef)) { ... }: the code of the error thrown for a
\* function, "" when the definition is accepted.
RefuseFunction(def) ==
  IF def.isFunction
  THEN IF def.IS_MACHINE_AS_ACTION THEN E_DOUBLE_WRAP
       ELSE IF def.isWetMachine THEN ""
       ELSE E_INVALID_MACHINE_DEF
  ELSE ""

\* var action = function _requestHandler(req, res) {...};
\* action.IS_MACHINE_AS_ACTION = true;
RequestHandler ==
  [ isFunction |-> TRUE, IS_MACHINE_AS_ACTION |-> TRUE, isWetMachine |-> FALSE ]

\* machineAsAction() threw this code: no plan, no handler.
Threw(code) ==
  /\ built' = code
  /\ responses' = << >>
  /\ action' = << >>
  /\ exits' = exits

\* The plan is kept and the handler returned if normalizeResponses returns;
\* its error is rethrown if not.
Built(n) ==
  /\ built' = IF n.err = "" THEN "ok" ELSE n.err
  /\ responses' = IF n.err = "" THEN n.responses ELSE << >>
  /\ action' = IF n.err = "" THEN <<RequestHandler>> ELSE << >>
  /\ exits' = n.mutated

\* machineAsAction(machineDef)
Compile ==
  /\ built = "pending"
  /\ IF RefuseFunction(machineDef) # ""
     THEN Threw(RefuseFunction(machineDef))
     ELSE Built(NormalizeResponses(configuredResponses, EnsureExits(exits)))
  /\ UNCHANGED <<machineDef, inputs, given, configuredResponses, options,
                 IS_RUNNING_IN_PRODUCTION, wrappedAgain, live, rq>>

\* machineAsAction(action): the caller passes the handler it got to
\* machineAsAction() again.  (Nothing refuses a function that is accepted: the
\* second call then goes on as the first.)
WrapAgain ==
  /\ Len(action) = 1
  /\ wrappedAgain = "pending"
  /\ wrappedAgain' = IF RefuseFunction(action[1]) # "" THEN RefuseFunction(action[1])
                     ELSE "ok"
  /\ UNCHANGED <<machineDef, inputs, given, exits, configuredResponses, options,
                 IS_RUNNING_IN_PRODUCTION, built, responses, action, live, rq>>

\* The request once the handler has checked res, built the arguments and run
\* the machine with them; it throws if res.json or res.send is missing, or if
\* req.file is missing and the `files` option is used.
Received(rec, req, hasJsonAndSend, opts, inputDefs) ==
  IF ~hasJsonAndSend \/ NeedsReqFile(req, opts)
  THEN [rec EXCEPT !.pc = "refused", !.req = <<req>>,
                   !.refusedFor = IF ~hasJsonAndSend THEN "res" ELSE "req.file"]
  ELSE [rec EXCEPT !.pc = "awaiting", !.req = <<req>>,
                   !.argins = BuildArgins(req, opts, inputDefs),
                   !.listening = ErrorListeners(opts)]

\* _requestHandler(req, res), up to deferred.switch(callbacks).
Receive(r) ==
  /\ built = "ok"
  /\ r \in live
  /\ rq[r].pc = "idle"
  /\ \E hasJsonAndSend \in BOOLEAN, req \in ReqsFor(inputs, options) :
       rq' = [rq EXCEPT ![r] = Received(@, req, hasJsonAndSend, options, inputs)]
  /\ UNCHANGED route

\* The implementation writes to this.res (res.write) before the response is made.
FnWrite(r) ==
  /\ rq[r].pc \in {"awaiting", "latency"}
  /\ ~rq[r].res.headersSent
  /\ rq' = [rq EXCEPT ![r].res.headersSent = TRUE]
  /\ UNCHANGED route

\* The implementation ends this.res (res.end) before the response is made.
FnEnd(r) ==
  /\ rq[r].pc \in {"awaiting", "latency"}
  /\ ~rq[r].res.finished
  /\ rq' = [rq EXCEPT ![r].res.headersSent = TRUE, ![r].res.finished = TRUE]
  /\ UNCHANGED route

\* Whether the strategy that just ran started piping the output.
StartedPipe(before, after) ==
  /\ Len(after.calls) > Len(before.calls)
  /\ after.calls[Len(after.calls)] = "pipe"

\* The hosts that differ in a property that `afterwards` reads when it runs for
\* this exit on this response; the properties it does not read are left at
\* their usual value.
HostsFor(exitCodeName, entry, res) ==
  LET type == entry.responseType
      builtin == type \in { Str(""), Str("redirect"), Str("view"), Str("error"),
                            Str("status"), Str("json") }
  IN  { h \in Hosts :
          /\ (type # Str("redirect") => h.redirect)
          /\ (type # Str("view") => h.view)
          /\ (type \notin {Str("redirect"), Str("view")} => ~h.socket)
          /\ (type # Str("error") => h.serverError)
          /\ (exitCodeName # "error" => h.badRequest)
          /\ (builtin => h.dyn = "ok")
          /\ (~res.headersSent => ~h.tolerant) }

\* The request once `afterwards` has run for its first exit and left `a`.
Responded(rec, a) ==
  [rec EXCEPT !.res = a.res,
              !.threw = a.threw,
              !.strategy = a.strategy,
              !.pc = IF a.raised THEN "raised" ELSE "responded",
              !.strm = IF StartedPipe(rec.res, a.res) THEN "piping" ELSE @,
              !.runs = Append(@, rec.exitAttempts[1]),
              !.sentAtDispatch = rec.res.headersSent]

\* The request after `afterwards` ran for its first exit, on the given host.
RunAfterwards(rec, host) ==
  [ Responded(rec, Afterwards(rec.res, rec.exitAttempts[1], responses[rec.exitAttempts[1]],
                              rec.output, options, IS_RUNNING_IN_PRODUCTION, host))
    EXCEPT !.capability = <<host.dyn>> ]

\* What the code avoids: an ignored exit that ends the response all the same.
IgnoreExitEndingResponse(rec, exitCodeName) ==
  [rec EXCEPT !.warnings = Append(@, [exit |-> exitCodeName, attempts |-> rec.exitAttempts]),
              !.notified = Append(@, exitCodeName),
              !.res = ResEnd(ResStatus(rec.res, Num(500)))]

\* The exit is ignored: more than one exit, or the same exit twice.
IgnoreExit(rec, exitCodeName) ==
  [rec EXCEPT !.warnings = Append(@, [exit |-> exitCodeName, attempts |-> rec.exitAttempts]),
              !.notified = Append(@, exitCodeName)]

\* What the code avoids: the X-Exit header is set before the wait.
AcceptExitSettingHeader(rec, exitCodeName, output) ==
  [rec EXCEPT !.exitAttempts = Append(@, exitCodeName),
              !.output = output,
              !.notified = Append(@, exitCodeName),
              !.res = ResSet(@, "X-Exit", exitCodeName)]

\* exitAttempts.push(exitCodeName), and the output is kept for `afterwards`.
AcceptExit(rec, exitCodeName, output) ==
  [rec EXCEPT !.exitAttempts = Append(@, exitCodeName),
              !.output = output,
              !.notified = Append(@, exitCodeName)]

\* What the code avoids: no spinlock at all.
SpinlockNeverHeld(rec) == FALSE

\* What the code avoids: one spinlock for all the requests of the route.
SpinlockSharedByRequests(rec) == \E q \in Requests : Len(rq[q].exitAttempts) > 0

\* The spinlock: an exit was already triggered for this request.
SpinlockHeld(rec) == Len(rec.exitAttempts) > 0

\* What machineAsAction() builds, but for the response plan.
routeButPlan == <<machineDef, inputs, given, exits, configuredResponses, options,
                  IS_RUNNING_IN_PRODUCTION, built, action, wrappedAgain, live>>

\* What the code avoids: the status code of an error is kept in the plan.
PlanAfterOverwritingStatus(plan, exitCodeName) ==
  [plan EXCEPT ![exitCodeName].statusCode = Num(500)]

\* The plan after respondApropos ran for an exit: it reads
\* responses[exitCodeName] and never writes to it.
PlanAfter(plan, exitCodeName) == plan

\* respondApropos(output): the callback of the exit `exitCodeName`.  The output
\* is drawn where the callback first reads it.
RespondApropos(r, exitCodeName) ==
  /\ rq[r].pc \in {"awaiting", "latency", "responded", "raised"}
  /\ Len(rq[r].notified) < MaxExitCalls
  /\ exitCodeName \in DOMAIN responses
  /\ IF SpinlockHeld(rq[r])
     THEN rq' = [rq EXCEPT ![r] = IgnoreExit(@, exitCodeName)]
     ELSE \E output \in Outputs :
            IF options.simulateLatency = 0
            THEN \E host \in HostsFor(exitCodeName, responses[exitCodeName], rq[r].res) :
                   rq' = [rq EXCEPT ![r] =
                            RunAfterwards(AcceptExit(@, exitCodeName, output), host)]
            ELSE rq' = [rq EXCEPT ![r] =
                          [AcceptExit(@, exitCodeName, output) EXCEPT !.pc = "latency"]]
  /\ responses' = PlanAfter(responses, exitCodeName)
  /\ UNCHANGED routeButPlan

\* The setTimeout of _waitForSimulatedLatencyIfRelevant fires.
TimerFires(r) ==
  /\ rq[r].pc = "latency"
  /\ \E host \in HostsFor(rq[r].exitAttempts[1], responses[rq[r].exitAttempts[1]], rq[r].res) :
       rq' = [rq EXCEPT ![r] = RunAfterwards(@, host)]
  /\ responses' = PlanAfter(responses, rq[r].exitAttempts[1])
  /\ UNCHANGED routeButPlan

\* The listener of the `error` event of a stream output.  Whatever it calls is
\* inside its own try/catch: an exception is logged and goes no further.
StreamErrorListener(res, production, hasServerError, tolerant) ==
  IF res.finished
    THEN CollaboratorWrite(res, "send", "", Undefined, "streamError", tolerant)
  ELSE IF res.headersSent
    THEN Outcome(ResEnd(res), "", "streamError")
  ELSE IF hasServerError
    THEN CollaboratorWrite(ResStatus(res, Num(500)), "serverError", "serverError",
                           JS("error", 0, "download"), "streamError", tolerant)
  ELSE IF production
    THEN ResSendStatus(res, Num(500), "streamError")
  ELSE HostWrite(ResStatus(res, Num(500)), "send", "inspect",
                 JS("error", 0, "download"), "streamError")

\* What the listener logs itself: the error when the response is not begun and
\* the host has no res.serverError; the exception of its own write (heard).
ListenerLogs(res, hasServerError, heard) ==
  (IF ~res.finished /\ ~res.headersSent /\ ~hasServerError THEN <<"download">> ELSE << >>)
  \o (IF heard.threw # "" THEN <<"Consistency violation">> ELSE << >>)

\* The piped output writes its first chunk: the head of the response is sent.
StreamData(r) ==
  /\ rq[r].strm = "piping"
  /\ ~rq[r].res.headersSent
  /\ rq' = [rq EXCEPT ![r].res.headersSent = TRUE]
  /\ UNCHANGED route

\* The piped output ends, and pipe() ends the response.
StreamEnd(r) ==
  /\ rq[r].strm = "piping"
  /\ rq' = [rq EXCEPT ![r].res.headersSent = TRUE,
                      ![r].res.finished = TRUE,
                      ![r].strm = "ended"]
  /\ UNCHANGED route

\* The stream output emits `error`, while it is piped or after it ended.
StreamError(r) ==
  /\ rq[r].strm \in {"piping", "ended"}
  /\ IsStream(rq[r].output)
  /\ \E hasServerError \in BOOLEAN, tolerant \in BOOLEAN :
       /\ (tolerant => rq[r].res.finished)
       /\ rq' = [rq EXCEPT
                   ![r].res = StreamErrorListener(@, IS_RUNNING_IN_PRODUCTION,
                                                  hasServerError, tolerant).res,
                   ![r].errors = @ \o ListenerLogs(rq[r].res, hasServerError,
                                     StreamErrorListener(rq[r].res, IS_RUNNING_IN_PRODUCTION,
                                                         hasServerError, tolerant)),
                   ![r].strm = "errored"]
  /\ UNCHANGED route

\* An `error` event of a stream whose listener, attached with once(), is gone:
\* the emitter throws the error.
EmitWithNoListener(rec) == [rec EXCEPT !.uncaught = TRUE]

\* The stream output emits `error` once more.
StreamErrorAgain(r) ==
  /\ rq[r].strm = "errored"
  /\ ~rq[r].uncaught
  /\ rq' = [rq EXCEPT ![r] = EmitWithNoListener(@)]
  /\ UNCHANGED route

Next ==
  \/ Compile
  \/ \E r \in Requests : Receive(r)
  \/ \E r \in Requests : FnWrite(r)
  \/ \E r \in Requests : FnEnd(r)
  \/ \E r \in Requests, e \in ExitNames : RespondApropos(r, e)
  \/ \E r \in Requests : TimerFires(r)
  \/ \E r \in Requests : StreamData(r)
  \/ \E r \in Requests : StreamEnd(r)
  \/ \E r \in Requests : StreamError(r)
  \/ \E r \in Requests : StreamErrorAgain(r)

(***************************************************************************)
(* Initial states.                                                         *)
(***************************************************************************)

\* The response types that the routes of the request model configure.
RouteResponseTypes ==
  { Undefined, Str(""), Str("error"), Str("redirect"), Str("view"),
    Str("status"), Str("json"), Str("notFound") }

\* The exit definitions of the exit that carries response directives.
RouteExitDefs ==
  { [ExitDef(Str("An exit.")) EXCEPT !.responseType = rt,
                                     !.statusCode = sc,
                                     !.viewTemplatePath = vtp] :
      rt \in RouteResponseTypes,
      sc \in {Undefined, Num(201)},
      vtp \in {Undefined, Str("homepage")} }

\* A machine with the three exits, one of which carries response directives.
RouteExits ==
  { [ e \in ExitNames |-> IF e = f THEN d ELSE ExitDef(Undefined) ] :
      f \in ExitNames,
      d \in { x \in RouteExitDefs :
                IsUndefined(x.viewTemplatePath) \/ x.responseType \in {Undefined, Str("view")} } }

\* options.files when the option is not used.
NoFiles == [ isArray |-> FALSE, names |-> << >> ]

OptionSets ==
  [ simulateLatency : {0, 500},
    disableXExitHeader : {FALSE},
    disableDevelopmentHeaders : {FALSE},
    urlWildcardSuffix : {Undefined},
    files : {NoFiles} ]

\* The action is built for one of the given machines, and no request is in yet.
InitRoutes(machines) ==
  /\ machineDef = Dictionary
  /\ inputs = << >>
  /\ action = << >>
  /\ wrappedAgain = "pending"
  /\ exits \in machines
  /\ given = exits
  /\ configuredResponses = << >>
  /\ options \in OptionSets
  /\ IS_RUNNING_IN_PRODUCTION \in BOOLEAN
  /\ built = "pending"
  /\ responses = << >>
  /\ live = {"r1"}
  /\ rq = [r \in Requests |-> IdleRequest]

Init == InitRoutes(RouteExits)

Spec == Init /\ [][Next]_vars

\* The timer of the simulated latency fires (setTimeout), whatever else happens.
\* The machines whose success exit alone carries a directive: its responseType.
SuccessRouteExits ==
  { x \in RouteExits :
      /\ x["error"] = ExitDef(Undefined)
      /\ x["whatever"] = ExitDef(Undefined)
      /\ IsUndefined(x["success"].statusCode)
      /\ IsUndefined(x["success"].viewTemplatePath) }

InitFair == InitRoutes(SuccessRouteExits)

FairSpec ==
  InitFair /\ [][Next]_vars /\ \A r \in Requests : WF_vars(TimerFires(r))

(***************************************************************************)
(* The compiler alone: machineAsAction() over a wide range of definitions. *)
(***************************************************************************)

\* The directives that an exit may carry.
CompileResponseTypes == RouteResponseTypes \cup { Num(42) }

CompileStatusCodes ==
  { Undefined, Null, Num(99), Num(100), Num(204), Num(599), Num(600), Frac(200, 5),
    Str("404"), Str("200.5"), Str("99"), Str("abc") }

CompileViewTemplatePaths == { Undefined, Str(""), Str("homepage"), Num(7) }

CompileOutputExamples == { Undefined, Str("some string"), Str("==="), Num(1), Dict, Arr }

CompileLegacyViews == { Undefined, Str("legacy") }

CompileDirectives ==
  { [ExitDef(Str("An exit.")) EXCEPT !.responseType = rt,
                                     !.statusCode = sc,
                                     !.viewTemplatePath = vtp,
                                     !.outputExample = ex,
                                     !.view = v] :
      rt \in CompileResponseTypes, sc \in CompileStatusCodes,
      vtp \in CompileViewTemplatePaths, ex \in CompileOutputExamples,
      v \in CompileLegacyViews }

\* The directives as an entry of options.responses: only the keys that are set.
Configured(directives) ==
  [ k \in { k \in DOMAIN directives : k # "description" /\ ~IsUndefined(directives[k]) }
      |-> directives[k] ]

\* The directives of the exit f are written in the machine's exit definition,
\* or in options.responses; the machine declares the reserved exits, or not.
\* What is passed is a dictionary with such exits or, with exits that carry no
\* directive, a function.
InitCompile ==
  /\ \/ /\ machineDef = Dictionary
        /\ \E f \in ExitNames, d \in CompileDirectives, inResponses \in BOOLEAN :
             \E declared \in {{f}, ExitNames} \cup (IF inResponses THEN {ExitNames \ {f}} ELSE {}) :
               /\ exits = [ e \in declared |->
                              IF e = f /\ ~inResponses THEN d ELSE ExitDef(Undefined) ]
               /\ configuredResponses =
                    IF inResponses THEN [ e \in {f} |-> Configured(d) ] ELSE << >>
     \/ /\ machineDef \in MachineDefs \ {Dictionary}
        /\ exits = [ e \in ExitNames |-> ExitDef(Undefined) ]
        /\ configuredResponses = << >>
  /\ given = exits
  /\ inputs = << >>
  /\ action = << >>
  /\ wrappedAgain = "pending"
  /\ options = [simulateLatency |-> 0, disableXExitHeader |-> FALSE,
                disableDevelopmentHeaders |-> FALSE, urlWildcardSuffix |-> Undefined,
                files |-> NoFiles]
  /\ IS_RUNNING_IN_PRODUCTION = FALSE
  /\ built = "pending"
  /\ responses = << >>
  /\ live = {}
  /\ rq = [r \in Requests |-> IdleRequest]

NextCompile == Compile \/ WrapAgain

SpecCompile == InitCompile /\ [][NextCompile]_vars

(***************************************************************************)
(* The diagnostic headers: the routes of FairSpec, under every setting of  *)
(* the options that disable headers.                                       *)
(***************************************************************************)

HeaderOptionSets ==
  [ simulateLatency : {0, 500},
    disableXExitHeader : BOOLEAN,
    disableDevelopmentHeaders : BOOLEAN,
    urlWildcardSuffix : {Undefined},
    files : {NoFiles} ]

InitHeaders ==
  /\ machineDef = Dictionary
  /\ inputs = << >>
  /\ exits \in SuccessRouteExits
  /\ given = exits
  /\ configuredResponses = << >>
  /\ options \in HeaderOptionSets
  /\ IS_RUNNING_IN_PRODUCTION \in BOOLEAN
  /\ built = "pending"
  /\ responses = << >>
  /\ action = << >>
  /\ wrappedAgain = "pending"
  /\ live = {"r1"}
  /\ rq = [r \in Requests |-> IdleRequest]

SpecHeaders == InitHeaders /\ [][Next]_vars

(***************************************************************************)
(* Two requests in flight on one route: the exits of the two requests and  *)
(* their timers, in every order.                                           *)
(***************************************************************************)

\* The machines that leave every exit as it is by default.
PlainRouteExits ==
  { x \in SuccessRouteExits : IsUndefined(x["success"].responseType) }

InitConcurrent ==
  /\ machineDef = Dictionary
  /\ inputs = << >>
  /\ exits \in PlainRouteExits
  /\ given = exits
  /\ configuredResponses = << >>
  /\ options \in OptionSets
  /\ IS_RUNNING_IN_PRODUCTION = FALSE
  /\ built = "pending"
  /\ responses = << >>
  /\ action = << >>
  /\ wrappedAgain = "pending"
  /\ live = Requests
  /\ rq = [r \in Requests |-> IdleRequest]

NextConcurrent ==
  \/ Compile
  \/ \E r \in Requests : Receive(r)
  \/ \E r \in Requests, e \in ExitNames : RespondApropos(r, e)
  \/ \E r \in Requests : TimerFires(r)

SpecConcurrent == InitConcurrent /\ [][NextConcurrent]_vars

(***************************************************************************)
(* Downloads: the implementation may set the content type of the response  *)
(* before it exits with a stream or a buffer.                              *)
(***************************************************************************)

\* this.res.set('Content-Type', ...) in the implementation, before the head
\* is sent.
FnSet(r) ==
  /\ rq[r].pc \in {"awaiting", "latency"}
  /\ ~rq[r].res.headersSent
  /\ \A h \in rq[r].res.headers : h[1] # "Content-Type"
  /\ rq' = [rq EXCEPT ![r].res = ResSet(@, "Content-Type", "text/csv")]
  /\ UNCHANGED route

NextStream ==
  \/ Next
  \/ \E r \in Requests : FnSet(r)

InitStream == InitRoutes(PlainRouteExits)

SpecStream == InitStream /\ [][NextStream]_vars

(***************************************************************************)
(* Uploads: the upstreams of the `files` option may emit errors, before    *)
(* and after the response.                                                 *)
(***************************************************************************)

\* The number of errors that the upstreams of one request may emit.
MaxUpstreamErrors == 2

\* An `error` event of the upstream of fileParamName: its listener logs it; an
\* emitter that has no listener throws it.
UpstreamEmits(rec, fileParamName) ==
  IF fileParamName \in rec.listening
  THEN [rec EXCEPT !.upstreamErrors = Append(@, fileParamName)]
  ELSE [rec EXCEPT !.uncaught = TRUE]

\* An upstream that was passed to the machine emits `error`.
UpstreamError(r, fileParamName) ==
  /\ rq[r].pc \in {"awaiting", "latency", "responded", "raised"}
  /\ fileParamName \in DOMAIN rq[r].argins
  /\ rq[r].argins[fileParamName].t = "upstream"
  /\ Len(rq[r].upstreamErrors) < MaxUpstreamErrors
  /\ ~rq[r].uncaught
  /\ rq' = [rq EXCEPT ![r] = UpstreamEmits(@, fileParamName)]
  /\ UNCHANGED route

UploadOptionSets ==
  [ simulateLatency : {0, 500},
    disableXExitHeader : {FALSE},
    disableDevelopmentHeaders : {FALSE},
    urlWildcardSuffix : {Undefined},
    files : { NoFiles,
              [ isArray |-> TRUE, names |-> <<"avatar">> ],
              [ isArray |-> TRUE, names |-> <<"avatar", "cover">> ] } ]

InitUpload ==
  /\ machineDef = Dictionary
  /\ inputs = << >>
  /\ exits = [ e \in {"success"} |-> ExitDef(Undefined) ]
  /\ given = exits
  /\ configuredResponses = << >>
  /\ options \in UploadOptionSets
  /\ IS_RUNNING_IN_PRODUCTION = FALSE
  /\ built = "pending"
  /\ responses = << >>
  /\ action = << >>
  /\ wrappedAgain = "pending"
  /\ live = {"r1"}
  /\ rq = [r \in Requests |-> IdleRequest]

NextUpload ==
  \/ Compile
  \/ \E r \in Requests : Receive(r)
  \/ \E r \in Requests, e \in ExitNames : RespondApropos(r, e)
  \/ \E r \in Requests : TimerFires(r)
  \/ \E r \in Requests, n \in {"avatar", "cover"} : UpstreamError(r, n)

SpecUpload == InitUpload /\ [][NextUpload]_vars

(***************************************************************************)
(* The arguments alone: a machine with inputs receives one request.        *)
(***************************************************************************)

ArginsOptionSets ==
  [ simulateLatency : {0},
    disableXExitHeader : {FALSE},
    disableDevelopmentHeaders : {FALSE},
    urlWildcardSuffix : {Undefined, Str("star")},
    files : { NoFiles,
              [ isArray |-> TRUE, names |-> << >> ],
              [ isArray |-> TRUE, names |-> <<"avatar">> ] } ]

InitArgins ==
  /\ machineDef = Dictionary
  /\ inputs \in InputSets
  /\ exits = [ e \in {"success"} |-> ExitDef(Undefined) ]
  /\ given = exits
  /\ configuredResponses = << >>
  /\ options \in ArginsOptionSets
  /\ IS_RUNNING_IN_PRODUCTION = FALSE
  /\ built = "pending"
  /\ responses = << >>
  /\ action = << >>
  /\ wrappedAgain = "pending"
  /\ live = {"r1"}
  /\ rq = [r \in Requests |-> IdleRequest]

NextArgins == Compile \/ \E r \in Requests : Receive(r)

SpecArgins == InitArgins /\ [][NextArgins]_vars

(***************************************************************************)
(* Properties of the negotiation of one request.                           *)
(***************************************************************************)

\* The branch of the switch that a response type selects.
StrategyNamed(responseType) ==
  CASE responseType = Str("")         -> "standard"
    [] responseType = Str("redirect") -> "redirect"
    [] responseType = Str("view")     -> "view"
    [] responseType = Str("error")    -> "error"
    [] responseType = Str("status")   -> "status"
    [] responseType = Str("json")     -> "json"
    [] OTHER                          -> "dynamic"

\* The branches of the switch.
Strategies == {"standard", "redirect", "view", "error", "status", "json", "dynamic"}

\* C1: for one request, whatever the exits notified and whenever they arrive,
\* at most one encoding strategy ever starts, it is the strategy of the exit
\* notified first, and no later notification is queued or run.
C1_AtMostOneStrategy ==
  \A r \in Requests :
    /\ Len(rq[r].runs) <= 1
    /\ Len(rq[r].exitAttempts) <= 1
    /\ rq[r].exitAttempts # << >> => rq[r].exitAttempts[1] = rq[r].notified[1]
    /\ rq[r].runs # << >> => rq[r].runs[1] = rq[r].notified[1]
    /\ rq[r].strategy \in Strategies =>
         rq[r].strategy = StrategyNamed(responses[rq[r].notified[1]].responseType)

\* Two different exits were notified, one strategy ran: that of the first.
C1_Witness ==
  \E r \in Requests :
    /\ Len(rq[r].notified) = 2
    /\ rq[r].notified[1] # rq[r].notified[2]
    /\ rq[r].runs = <<rq[r].notified[1]>>
    /\ rq[r].strategy \in Strategies
    /\ StrategyNamed(responses[rq[r].notified[2]].responseType) # rq[r].strategy

\* An exit is notified for r, and it is not the first one.
LaterNotification(r) ==
  /\ rq[r].notified # << >>
  /\ Len(rq'[r].notified) = Len(rq[r].notified) + 1

\* C2: an exit notification that is not the first one of its request leaves
\* the response as it is (status, headers, body, finished flag) and returns to
\* its caller without raising.
C2_LaterNotificationIsDropped ==
  [][ \A r \in Requests :
        LaterNotification(r) =>
          /\ rq'[r].res = rq[r].res
          /\ rq'[r].pc = rq[r].pc
          /\ rq'[r].threw = rq[r].threw
          /\ rq'[r].runs = rq[r].runs ]_vars

\* The same exit was notified twice, the second time after the response was
\* made: a warning was logged and the response is the one of the first time.
C2_Witness ==
  \E r \in Requests :
    /\ Len(rq[r].notified) = 2
    /\ rq[r].notified[1] = rq[r].notified[2]
    /\ Len(rq[r].warnings) = 1
    /\ rq[r].pc = "responded"
    /\ rq[r].res.finished
    /\ Len(rq[r].res.calls) = 1

\* C3: no exception ever leaves an exit callback or its delayed continuation,
\* whatever the response type, the output and the state of the response.
C3_NoExceptionPropagates ==
  \A r \in Requests : rq[r].pc # "raised"

\* C4: the negotiation of a request only moves forward (awaiting an exit,
\* responding, responded): once the timer of the latency is fair, every
\* request for which an exit is notified ends up responded, and no request
\* goes back to awaiting an exit.
C4_EventuallyResponded ==
  /\ \A r \in Requests : (rq[r].notified # << >>) ~> (rq[r].pc = "responded")
  /\ [][ \A r \in Requests :
           rq[r].pc \notin {"idle", "awaiting"} => rq'[r].pc # "awaiting" ]_vars

\* The strategies whose status code is the one of the plan.
PlanStatusStrategies == {"standard", "redirect", "view", "status", "json", "dynamic"}

\* C5: when the standard, redirect, view, status, json or a dynamic strategy
\* completes without failing, on a response whose headers were not sent yet,
\* the status code of the response is the statusCode of the plan for the exit
\* that fired; a numeric output is never taken for the status.  (Afterwards,
\* only the error of a piped stream may change the status.)
C5_StatusIsPlanStatus ==
  \A r \in Requests :
    ( /\ rq[r].pc = "responded"
      /\ rq[r].threw = ""
      /\ ~rq[r].sentAtDispatch
      /\ rq[r].strategy \in PlanStatusStrategies
      /\ rq[r].strm # "errored" )
    => rq[r].res.statusCode = responses[rq[r].runs[1]].statusCode

\* The standard strategy sent the number 404 with the status 201 of the plan.
C5_Witness ==
  \E r \in Requests :
    /\ rq[r].pc = "responded"
    /\ rq[r].threw = ""
    /\ ~rq[r].sentAtDispatch
    /\ rq[r].strategy = "standard"
    /\ rq[r].output = Num(404)
    /\ responses[rq[r].runs[1]].statusCode = Num(201)
    /\ rq[r].res.statusCode = Num(201)
    /\ rq[r].res.payload = Num(404)

(***************************************************************************)
(* Properties of the compiled response plan.                               *)
(***************************************************************************)

\* The exit as the caller declared it: its definition in the machine, with the
\* entry of options.responses over it.
Declared(e) == Merged(e, EnsureExits(given)[e], configuredResponses)

\* The viewTemplatePath that the caller declared, under this name or a legacy one.
DeclaredViewTemplatePath(e) == MigrateLegacyView(Declared(e)).viewTemplatePath

\* The status code that the priority list gives to an exit of this name and type.
StatusByPriority(e, responseType) ==
  IF responseType = Str("error") \/ e = "error" THEN 500
  ELSE IF responseType = Str("redirect") THEN 302
  ELSE IF e = "success" \/ responseType = Str("view") THEN 200
  ELSE 500

C7_DefaultStatusByNameOnly ==
  built = "ok" =>
    \A e \in DOMAIN responses \ {"error"} :
      (IsUndefined(Declared(e).responseType) /\ IsUndefined(Declared(e).statusCode)) =>
        responses[e].statusCode = IF e = "success" THEN Num(200) ELSE Num(500)

\* C7, as the code has it: an exit whose responseType is unset and whose name
\* is not error defaults to the status 200 if it is named success or carries a
\* viewTemplatePath (its type is then inferred to be view), and to 500 if not.
C7_DefaultStatusByNameAndView ==
  built = "ok" =>
    \A e \in DOMAIN responses \ {"error"} :
      (IsUndefined(Declared(e).responseType) /\ IsUndefined(Declared(e).statusCode)) =>
        responses[e].statusCode =
          IF e = "success" \/ Truthy(DeclaredViewTemplatePath(e)) THEN Num(200)
          ELSE Num(500)

\* The exit `whatever`, with a viewTemplatePath and nothing else, got 200.
C7_Witness ==
  /\ built = "ok"
  /\ "whatever" \in DOMAIN given
  /\ IsUndefined(Declared("whatever").responseType)
  /\ IsUndefined(Declared("whatever").statusCode)
  /\ Declared("whatever").viewTemplatePath = Str("homepage")
  /\ responses["whatever"].statusCode = Num(200)

IsInteger(v) == v.t = "number" /\ v.n % Scale = 0

\* C9: after a successful compile, the statusCode of every entry of the plan
\* is an integer between 100 and 599 (so a configured statusCode that is out
\* of range, not a number, or fractional makes the compile fail).
C9_StatusIsIntegerInRange ==
  built = "ok" =>
    \A e \in DOMAIN responses :
      /\ IsInteger(responses[e].statusCode)
      /\ responses[e].statusCode.n >= 100 * Scale
      /\ responses[e].statusCode.n <= 599 * Scale

\* A machine whose exit declares the statusCode 200.5 compiled.
C9_Witness ==
  /\ built = "ok"
  /\ \E e \in DOMAIN responses :
       /\ Declared(e).statusCode \in { Frac(200, 5), Str("200.5") }
       /\ responses[e].statusCode = Frac(200, 5)

\* C10, as the specification states it: the compile fails with the invalid
\* response metadata error whenever a configured responseType is not one of
\* the recognized types, an unrecognized string included.
C10_UnrecognizedTypeRejected ==
  built # "pending" =>
    \A e \in DOMAIN EnsureExits(given) :
      ~ResponseTypeIsRecognized(Declared(e)) => built = E_INVALID_RES_METADATA

\* The exit declares nothing but (perhaps) a responseType.
DeclaresOnlyResponseType(e) ==
  /\ IsUndefined(Declared(e).statusCode)
  /\ IsUndefined(Declared(e).viewTemplatePath)
  /\ IsUndefined(Declared(e).view)
  /\ IsUndefined(Declared(e).viewPath)
  /\ IsUndefined(Declared(e).outputExample)
  /\ IsUndefined(Declared(e).like)

\* C10, as the code has it: the compile fails with the invalid response
\* metadata error whenever a configured responseType is not a string; every
\* string is accepted, recognized or not, and kept in the plan as it is.
C10_NonStringTypeRejected ==
  built # "pending" =>
    \A e \in DOMAIN EnsureExits(given) :
      /\ (~IsUndefined(Declared(e).responseType) /\ ~IsString(Declared(e).responseType))
           => built = E_INVALID_RES_METADATA
      /\ (IsString(Declared(e).responseType) /\ DeclaresOnlyResponseType(e))
           => (built = "ok" /\ responses[e].responseType = Declared(e).responseType)

\* A machine whose exit declares the responseType notFound compiled.
C10_Witness ==
  /\ built = "ok"
  /\ "whatever" \in DOMAIN given
  /\ Declared("whatever").responseType = Str("notFound")
  /\ responses["whatever"].responseType = Str("notFound")

\* C11: in every compiled plan, an entry carries a viewTemplatePath if and only
\* if its responseType is view.
C11_ViewTemplatePathIffView ==
  built = "ok" =>
    \A e \in DOMAIN responses :
      ~IsUndefined(responses[e].viewTemplatePath) <=> responses[e].responseType = Str("view")

\* A plan was compiled whose `whatever` entry is a view without a
\* viewTemplatePath.
C11_Witness ==
  /\ built = "ok"
  /\ "whatever" \in DOMAIN responses
  /\ responses["whatever"].responseType = Str("view")
  /\ IsUndefined(responses["whatever"].viewTemplatePath)

\* The error kind that the specification names for a responseType that does
\* not fit the output example; the code has no error code of its own for it.
IncompatibleExitConfiguration == "E_INCOMPATIBLE_EXIT_CONFIGURATION"

\* The exit declares a responseType and (perhaps) an outputExample, and
\* nothing else.
DeclaresOnlyTypeAndExample(e) ==
  /\ IsUndefined(Declared(e).statusCode)
  /\ IsUndefined(Declared(e).viewTemplatePath)
  /\ IsUndefined(Declared(e).view)
  /\ IsUndefined(Declared(e).viewPath)
  /\ IsUndefined(Declared(e).like)

\* C12, as the specification states it: the compile fails with an error of the
\* kind IncompatibleExitConfiguration for every redirect exit whose output
\* example is present and is not a string, and succeeds when it is a string or
\* absent.
C12_RedirectFailsAsIncompatible ==
  built # "pending" =>
    \A e \in DOMAIN EnsureExits(given) :
      (Declared(e).responseType = Str("redirect") /\ DeclaresOnlyTypeAndExample(e)) =>
        IF IsUndefined(Declared(e).outputExample) \/ IsString(Declared(e).outputExample)
        THEN built = "ok"
        ELSE built = IncompatibleExitConfiguration

\* C12, as the code has it: the compile fails for every redirect exit whose
\* output example is present and is not a string, with the same error code as
\* for invalid response metadata, and succeeds when it is a string or absent.
C12_RedirectFailsAsInvalidMetadata ==
  built # "pending" =>
    \A e \in DOMAIN EnsureExits(given) :
      (Declared(e).responseType = Str("redirect") /\ DeclaresOnlyTypeAndExample(e)) =>
        IF IsUndefined(Declared(e).outputExample) \/ IsString(Declared(e).outputExample)
        THEN built = "ok"
        ELSE built = E_INVALID_RES_METADATA

\* The compile of a redirect exit whose output example is a dictionary failed.
C12_Witness ==
  /\ built = E_INVALID_RES_METADATA
  /\ \E e \in DOMAIN EnsureExits(given) :
       /\ Declared(e).responseType = Str("redirect")
       /\ DeclaresOnlyTypeAndExample(e)
       /\ Declared(e).outputExample = Dict

C14_JsonNeedsExample ==
  built # "pending" =>
    \A e \in DOMAIN EnsureExits(given) :
      ( /\ Declared(e).responseType = Str("json")
        /\ IsUndefined(Declared(e).outputExample)
        /\ IsUndefined(Declared(e).like) ) =>
        built # "ok"

\* A json exit without an output example compiled, and its plan kept the
\* json response type.
C14_Witness ==
  /\ built = "ok"
  /\ \E e \in DOMAIN responses :
       /\ Declared(e).responseType = Str("json")
       /\ IsUndefined(Declared(e).outputExample)
       /\ IsUndefined(Declared(e).like)
       /\ responses[e].responseType = Str("json")

(***************************************************************************)
(* Properties of the encoding strategies.                                  *)
(***************************************************************************)

\* The request r was answered by the given strategy, which returned, on a
\* response that was not sent when `afterwards` began, and no stream error
\* wrote over it since.
AnsweredBy(r, strategy) ==
  /\ rq[r].pc = "responded"
  /\ rq[r].threw = ""
  /\ ~rq[r].sentAtDispatch
  /\ rq[r].strategy = strategy
  /\ rq[r].strm # "errored"

\* The plan of the exit for which `afterwards` ran for the request r.
Plan(r) == responses[rq[r].runs[1]]

C16_StringSentAsIs ==
  \A r \in Requests :
    ( /\ AnsweredBy(r, "standard")
      /\ Plan(r).responseType = Str("")
      /\ IsString(rq[r].output) )
    => /\ rq[r].res.body = "text"
       /\ rq[r].res.payload = rq[r].output
       /\ rq[r].res.calls = <<"send">>
       /\ rq[r].res.statusCode = Plan(r).statusCode
       /\ ( /\ rq[r].runs[1] = "success"
            /\ IsUndefined(Declared("success").statusCode)
            /\ "success" \notin DOMAIN configuredResponses )
          => rq[r].res.statusCode = Num(200)

\* The success exit, with no configured status, fired with 'hello world!'.
C16_Witness ==
  \E r \in Requests :
    /\ AnsweredBy(r, "standard")
    /\ rq[r].runs[1] = "success"
    /\ IsUndefined(Declared("success").statusCode)
    /\ rq[r].output = Str("hello world!")
    /\ rq[r].res.body = "text"
    /\ rq[r].res.payload = Str("hello world!")
    /\ rq[r].res.statusCode = Num(200)

\* The request r was answered by a redirect, for an exit fired with a string
\* or with no output.
Redirected(r) ==
  /\ AnsweredBy(r, "redirect")
  /\ Plan(r).responseType = Str("redirect")
  /\ (IsString(rq[r].output) \/ IsUndefined(rq[r].output))

ValidationFailure(r) ==
  /\ rq[r].pc \in {"responded", "raised"}
  /\ rq[r].runs[1] = "error"
  /\ rq[r].output = UsageError(TRUE)
  /\ ~rq[r].sentAtDispatch

\* The request r was answered with the status 400 and the error that carries
\* the problems.
AnsweredWith400(r) ==
  /\ rq[r].pc = "responded"
  /\ rq[r].threw = ""
  /\ rq[r].strategy = "validation"
  /\ rq[r].res.statusCode = Num(400)
  /\ rq[r].res.payload = ValidationErr
  /\ rq[r].res.calls \in { <<"badRequest">>, <<"json">> }

\* The development headers of a view exit that has no viewTemplatePath cannot
\* be written (see C11).
ViewHeaderFails(r) ==
  /\ ~IS_RUNNING_IN_PRODUCTION
  /\ ~options.disableDevelopmentHeaders
  /\ Plan(r).responseType = Str("view")
  /\ IsUndefined(Plan(r).viewTemplatePath)

\* C18: whenever the engine reports a failed validation of the arguments, with
\* the list of the problems, the request is answered with a 400 response that
\* exposes the problems, never with a 500, whatever the statusCode of the plan
\* of the error exit.
C18_ValidationFailureIs400 ==
  \A r \in Requests : ValidationFailure(r) => AnsweredWith400(r)

\* The same, for the requests whose development headers can be written.
ValidationFailureIs400UnlessHeaderFails ==
  \A r \in Requests : (ValidationFailure(r) /\ ~ViewHeaderFails(r)) => AnsweredWith400(r)

\* A failed validation was answered with 400 though the plan of the error exit
\* has the status code 201.
C18_Witness ==
  \E r \in Requests :
    /\ ValidationFailure(r)
    /\ AnsweredWith400(r)
    /\ Plan(r).statusCode = Num(201)

\* The view strategy ran for the request r, on a response that was not sent
\* yet and a host that can render views.
ViewStrategyRan(r) ==
  /\ rq[r].pc \in {"responded", "raised"}
  /\ rq[r].strategy = "view"
  /\ ~rq[r].sentAtDispatch
  /\ rq[r].threw \notin {"noView", "notAFunction"}

\* res.view() was called for the request r.
Rendered(r) == \E i \in 1..Len(rq[r].res.calls) : rq[r].res.calls[i] = "view"

\* C19: a view exit fired with a plain dictionary passes it to res.view() as
\* the locals, with the status code of the plan; fired with no output, it
\* renders with no locals; fired with anything else (an array, a string, a
\* number, a function, an Error, a buffer, a stream) it fails before res.view()
\* is called.
C19_ViewLocalsArePlainDictionary ==
  \A r \in Requests :
    ViewStrategyRan(r) =>
      IF IsPlainObject(rq[r].output)
        THEN /\ rq[r].threw = ""
             /\ rq[r].res.calls = <<"view">>
             /\ rq[r].res.payload = rq[r].output
             /\ rq[r].res.statusCode = Plan(r).statusCode
      ELSE IF IsUndefined(rq[r].output) \/ IsNull(rq[r].output)
        THEN /\ rq[r].threw = ""
             /\ rq[r].res.calls = <<"view">>
             /\ rq[r].res.payload = Undefined
             /\ rq[r].res.statusCode = Plan(r).statusCode
      ELSE /\ rq[r].threw = "viewLocals"
           /\ ~Rendered(r)

\* A view exit fired with an Error: res.view() was called with the Error as
\* the locals.
C19_Witness ==
  \E r \in Requests :
    /\ ViewStrategyRan(r)
    /\ rq[r].output = ErrorObj(FALSE)
    /\ rq[r].threw = ""
    /\ rq[r].res.calls = <<"view">>
    /\ rq[r].res.payload = ErrorObj(FALSE)

\* The same, leaving out the outputs that are objects without being plain
\* dictionaries.
ViewLocalsAreObjects ==
  \A r \in Requests :
    ViewStrategyRan(r) =>
      IF IsObject(rq[r].output) /\ ~IsArray(rq[r].output) /\ ~IsFunction(rq[r].output)
        THEN /\ rq[r].threw = ""
             /\ rq[r].res.calls = <<"view">>
             /\ rq[r].res.payload = rq[r].output
             /\ rq[r].res.statusCode = Plan(r).statusCode
      ELSE IF IsUndefined(rq[r].output) \/ IsNull(rq[r].output)
        THEN /\ rq[r].threw = ""
             /\ rq[r].res.calls = <<"view">>
             /\ rq[r].res.payload = Undefined
             /\ rq[r].res.statusCode = Plan(r).statusCode
      ELSE /\ rq[r].threw = "viewLocals"
           /\ ~Rendered(r)

\* `afterwards` ran for the request r and an exit whose plan has the error
\* response type, on a response that was not sent yet and a host that has
\* res.serverError(); the output is not null, and is not a failed validation
\* reported to the error exit (see C18).
ErrorExitFired(r) ==
  /\ rq[r].pc \in {"responded", "raised"}
  /\ Plan(r).responseType = Str("error")
  /\ ~rq[r].sentAtDispatch
  /\ rq[r].threw # "noServerError"
  /\ ~IsNull(rq[r].output)
  /\ ~IsValidationError(rq[r].runs[1], rq[r].output)

\* res.serverError() was called for the request r, once, with this error.
ServerErrorCalledWith(r, err) ==
  /\ rq[r].pc = "responded"
  /\ rq[r].threw = ""
  /\ rq[r].strategy = "error"
  /\ rq[r].res.calls = <<"serverError">>
  /\ rq[r].res.payload = err

\* C20: an exit whose plan has the error response type, the exit named error
\* included, calls res.serverError() with an error made up from the method, the
\* path and the exit when it is fired with no output, and with the output when
\* there is one.
C20_ServerErrorGetsOutputOrSynthesized ==
  \A r \in Requests :
    ErrorExitFired(r) =>
      IF IsUndefined(rq[r].output)
      THEN ServerErrorCalledWith(r, SynthesizedError)
      ELSE ServerErrorCalledWith(r, rq[r].output)

\* The exit named error was fired with no output: reading output.name threw
\* a TypeError, and res.serverError() was never called.
C20_Witness ==
  \E r \in Requests :
    /\ ErrorExitFired(r)
    /\ rq[r].runs[1] = "error"
    /\ IsUndefined(rq[r].output)
    /\ rq[r].threw = "typeError"
    /\ rq[r].strategy = ""
    /\ \A i \in 1..Len(rq[r].res.calls) : rq[r].res.calls[i] # "serverError"
    /\ rq[r].res.statusCode = Num(500)

\* The same as C20, for the exits other than the one named error when there is
\* no output, and with the adjusted error in the place of an internal error.
ServerErrorGetsCatchallErr ==
  \A r \in Requests :
    (ErrorExitFired(r) /\ ~(rq[r].runs[1] = "error" /\ IsUndefined(rq[r].output))) =>
      ServerErrorCalledWith(r, CatchallErr(rq[r].output))

(***************************************************************************)
(* Properties of machineAsAction() and of the arguments of the machine.    *)
(***************************************************************************)

\* C21: every handler that machineAsAction() returns is marked as built by
\* this package, and passing such a handler to machineAsAction() as the machine
\* definition fails with the code E_DOUBLE_WRAP; a definition that bears the
\* mark is refused in the same way, and no handler is returned for it.
C21_DoubleWrapFails ==
  /\ \A i \in 1..Len(action) : action[i].isFunction /\ action[i].IS_MACHINE_AS_ACTION
  /\ wrappedAgain \in {"pending", E_DOUBLE_WRAP}
  /\ (built # "pending" /\ machineDef.isFunction /\ machineDef.IS_MACHINE_AS_ACTION)
       => (built = E_DOUBLE_WRAP /\ action = << >>)

\* A handler was returned and was passed back: the second call failed.
C21_Witness ==
  /\ built = "ok"
  /\ Len(action) = 1
  /\ action[1].IS_MACHINE_AS_ACTION
  /\ wrappedAgain = E_DOUBLE_WRAP

\* The request r was delivered and the machine was run with its arguments.
Bound(r) == rq[r].pc = "awaiting" /\ Len(rq[r].req) = 1

\* C22: the arguments have keys only for the declared inputs and for the
\* parameters named by the `files` option; a parameter of the request that
\* matches no declared input is not passed to the machine, and a declared
\* input for which the request has no parameter is bound to undefined.
C22_OnlyDeclaredInputsAreBound ==
  \A r \in Requests :
    Bound(r) =>
      /\ DOMAIN rq[r].argins \subseteq DOMAIN inputs \cup FileParamNames(options)
      /\ "y" \notin DOMAIN rq[r].argins
      /\ \A n \in DOMAIN inputs \ FileParamNames(options) :
           ( /\ ~IsWildcardSuffix(options, n)
             /\ IsUndefined(ReqParam(rq[r].req[1], n)) )
           => (n \in DOMAIN rq[r].argins /\ IsUndefined(rq[r].argins[n]))

\* The request carries x and y, the machine declares neither: they are not
\* passed; the input star, for which the request has nothing, is undefined.
C22_Witness ==
  \E r \in Requests :
    /\ Bound(r)
    /\ DOMAIN inputs = {"star"}
    /\ ~IsUndefined(ReqParam(rq[r].req[1], "x"))
    /\ ~IsUndefined(ReqParam(rq[r].req[1], "y"))
    /\ IsUndefined(ReqParam(rq[r].req[1], "star"))
    /\ DOMAIN rq[r].argins = {"star"}
    /\ IsUndefined(rq[r].argins["star"])

\* The inputs of the machine whose argument comes from the parameters.
TextInputs == DOMAIN inputs \ FileParamNames(options)

\* The query string has an empty string under the name of this input, and the
\* input is one that the code then treats in its own way (see C24).
EmptyAndTyped(req, n) ==
  inputs[n].type \in {Str("boolean"), Str("number")} /\ EmptyInQuery(req, n)

\* C23: the input that urlWildcardSuffix names is bound to the wildcard match
\* of the request (the parameter "0"), not to the parameter of its own name;
\* every other input is bound to the parameter of its own name (but for the
\* empty strings of C24).
C23_WildcardSuffixIsBoundToMatch ==
  \A r \in Requests :
    Bound(r) =>
      \A n \in TextInputs :
        IF IsWildcardSuffix(options, n)
        THEN /\ n \in DOMAIN rq[r].argins
             /\ rq[r].argins[n] = ReqParam(rq[r].req[1], "0")
        ELSE ~EmptyAndTyped(rq[r].req[1], n) =>
               /\ n \in DOMAIN rq[r].argins
               /\ rq[r].argins[n] = ReqParam(rq[r].req[1], n)

\* The same, but for a wildcard input that is a boolean or a number when the
\* query string carries an empty string under the name of the input.
WildcardSuffixIsBoundUnlessEmptyInQuery ==
  \A r \in Requests :
    Bound(r) =>
      \A n \in TextInputs :
        ~EmptyAndTyped(rq[r].req[1], n) =>
          /\ n \in DOMAIN rq[r].argins
          /\ rq[r].argins[n] = IF IsWildcardSuffix(options, n)
                               THEN ReqParam(rq[r].req[1], "0")
                               ELSE ReqParam(rq[r].req[1], n)

\* The wildcard input star, a boolean, is bound to true and not to the match
\* foo/bar, because the query string has star with an empty value.
C23_Witness ==
  \E r \in Requests :
    /\ Bound(r)
    /\ "star" \in TextInputs
    /\ IsWildcardSuffix(options, "star")
    /\ ReqParam(rq[r].req[1], "0") = Str("foo/bar")
    /\ inputs["star"].type = Str("boolean")
    /\ rq[r].req[1].query["star"] = Str("")
    /\ rq[r].argins["star"] = Bool(TRUE)

\* The query string of the request has an empty string under this name.
QueryHasEmpty(req, n) == n \in DOMAIN req.query /\ req.query[n] = Str("")

\* C24, as the specification states it: an input whose parameter is an empty
\* string, whether it comes from the route, the query string or the body, is
\* left out of the arguments if it is a number and bound to true if it is a
\* boolean.
C24_EmptyStringFromAnyPart ==
  \A r \in Requests :
    Bound(r) =>
      \A n \in TextInputs :
        (~IsWildcardSuffix(options, n) /\ ReqParam(rq[r].req[1], n) = Str("")) =>
          /\ inputs[n].type = Str("number") => n \notin DOMAIN rq[r].argins
          /\ inputs[n].type = Str("boolean") =>
               (n \in DOMAIN rq[r].argins /\ rq[r].argins[n] = Bool(TRUE))

\* C24, as the code has it: what counts is the query string.  When it has an
\* empty string under the name of the input, a number is left out and a
\* boolean is true, whatever the route and the body carry under that name;
\* otherwise the input is bound to its parameter, and an empty string that
\* comes from the route or the body is passed as it is.
C24_EmptyStringInQuery ==
  \A r \in Requests :
    Bound(r) =>
      \A n \in TextInputs :
        IF QueryHasEmpty(rq[r].req[1], n) /\ inputs[n].type = Str("number")
          THEN n \notin DOMAIN rq[r].argins
        ELSE IF QueryHasEmpty(rq[r].req[1], n) /\ inputs[n].type = Str("boolean")
          THEN n \in DOMAIN rq[r].argins /\ rq[r].argins[n] = Bool(TRUE)
        ELSE /\ n \in DOMAIN rq[r].argins
             /\ rq[r].argins[n] = IF IsWildcardSuffix(options, n)
                                  THEN ReqParam(rq[r].req[1], "0")
                                  ELSE ReqParam(rq[r].req[1], n)

\* The number x is left out, for the empty x of the query string, though the
\* route gives x a value.
C24_Witness ==
  \E r \in Requests :
    /\ Bound(r)
    /\ "x" \in TextInputs
    /\ inputs["x"].type = Str("number")
    /\ rq[r].req[1].query["x"] = Str("")
    /\ ReqParam(rq[r].req[1], "x") = Str("of the route")
    /\ "x" \notin DOMAIN rq[r].argins

(***************************************************************************)
(* Properties of the headers, of the plan and of concurrent requests.      *)
(***************************************************************************)

\* The names of the headers set on the response of the request r.
HeaderNames(r) == { h[1] : h \in rq[r].res.headers }

\* C25, as the specification states it: in production, or when a flag that
\* disables headers is set, no X-Exit header and no X-Exit-* header is set on
\* any response.
C25_NoDiagnosticHeaderInProduction ==
  \A r \in Requests :
    ( \/ IS_RUNNING_IN_PRODUCTION
      \/ options.disableDevelopmentHeaders
      \/ options.disableXExitHeader )
    => HeaderNames(r) = {}

\* C25, as the code has it: the X-Exit-* headers are set neither in production
\* nor when disableDevelopmentHeaders is set; the X-Exit header is set in
\* every environment, with the name of the exit, unless disableXExitHeader is
\* set (and unless the headers were sent before the exit fired).
C25_HeadersFollowTheirOwnFlags ==
  \A r \in Requests :
    /\ (IS_RUNNING_IN_PRODUCTION \/ options.disableDevelopmentHeaders)
         => HeaderNames(r) \subseteq {"X-Exit"}
    /\ options.disableXExitHeader => "X-Exit" \notin HeaderNames(r)
    /\ ( /\ rq[r].runs # << >>
         /\ ~rq[r].sentAtDispatch
         /\ ~options.disableXExitHeader )
       => <<"X-Exit", rq[r].runs[1]>> \in rq[r].res.headers

\* In production, with disableDevelopmentHeaders set, a response has the
\* X-Exit header and no other.
C25_Witness ==
  \E r \in Requests :
    /\ IS_RUNNING_IN_PRODUCTION
    /\ options.disableDevelopmentHeaders
    /\ ~options.disableXExitHeader
    /\ rq[r].pc = "responded"
    /\ rq[r].res.headers = { <<"X-Exit", "success">> }

\* The bodies that carry the message or the stack of an error: the output of
\* util.inspect(err), and errMsg.
ErrorDetailBodies == {"inspect", "errMsg"}

\* The last response method called for the request r.
LastCall(r) ==
  IF rq[r].res.calls = << >> THEN "" ELSE rq[r].res.calls[Len(rq[r].res.calls)]

\* C26: in production, what this package itself writes for an Error output
\* that has no toJSON, for a failure of a strategy or for the error of a
\* stream is a bare status: no body ever carries a message or a stack, and
\* the response does not depend on the error (it holds nothing of it).
C26_NoErrorDetailInProduction ==
  IS_RUNNING_IN_PRODUCTION =>
    \A r \in Requests :
      /\ rq[r].res.body \notin ErrorDetailBodies
      /\ (AnsweredBy(r, "standard") /\ IsError(rq[r].output) /\ ~HasToJSON(rq[r].output))
           => /\ rq[r].res.calls = <<"sendStatus">>
              /\ rq[r].res.body = "status text"
              /\ rq[r].res.payload = Undefined
              /\ rq[r].res.statusCode = Plan(r).statusCode
      /\ (rq[r].pc = "responded" /\ rq[r].threw # "" /\ rq[r].strm # "errored")
           => /\ LastCall(r) = "sendStatus"
              /\ rq[r].res.body = "status text"
              /\ rq[r].res.payload = Undefined
              /\ rq[r].res.statusCode = Num(500)
      /\ (rq[r].strm = "errored" /\ LastCall(r) = "sendStatus")
           => /\ rq[r].res.body = "status text"
              /\ rq[r].res.payload = Undefined
              /\ rq[r].res.statusCode = Num(500)

\* In production, a strategy failed and the response is a bare 500.
C26_Witness ==
  \E r \in Requests :
    /\ IS_RUNNING_IN_PRODUCTION
    /\ rq[r].pc = "responded"
    /\ rq[r].threw # ""
    /\ ~rq[r].sentAtDispatch
    /\ rq[r].res.calls = <<"sendStatus">>
    /\ rq[r].res.body = "status text"
    /\ rq[r].res.statusCode = Num(500)

\* In production, an Error with no toJSON was the output of a standard exit.
ErrorOutputInProduction ==
  \E r \in Requests :
    /\ IS_RUNNING_IN_PRODUCTION
    /\ AnsweredBy(r, "standard")
    /\ rq[r].output = ErrorObj(FALSE)
    /\ rq[r].res.body = "status text"

\* In production, a piped stream failed on a host with no res.serverError().
StreamErrorInProduction ==
  \E r \in Requests :
    /\ IS_RUNNING_IN_PRODUCTION
    /\ rq[r].strm = "errored"
    /\ LastCall(r) = "sendStatus"
    /\ rq[r].res.statusCode = Num(500)

\* C27: handling requests never changes the compiled response plan: whatever
\* exits fire, with whatever output, and whether or not a strategy fails, every
\* entry of the plan stays what the compile made it.
C27_PlanIsReadOnly ==
  [][ built = "ok" => (built' = "ok" /\ responses' = responses) ]_vars

\* A request was answered after a strategy failed, and the plan is still there.
C27_Witness ==
  \E r \in Requests :
    /\ built = "ok"
    /\ rq[r].pc = "responded"
    /\ rq[r].threw # ""
    /\ Len(rq[r].notified) = 2
    /\ rq[r].runs[1] \in DOMAIN responses
    /\ responses[rq[r].runs[1]].statusCode = Num(201)

\* The first exit notified for the request r is the one that was accepted,
\* and the one whose response was made once `afterwards` ran.
FirstExitHonoured(r) ==
  rq[r].notified # << >> =>
    /\ rq[r].exitAttempts = << rq[r].notified[1] >>
    /\ rq[r].pc \in {"latency", "responded", "raised"}
    /\ rq[r].pc # "latency" =>
         /\ rq[r].runs = << rq[r].notified[1] >>
         /\ <<"X-Exit", rq[r].notified[1]>> \in rq[r].res.headers

\* C28: with two requests in flight on the route, in every order of their
\* exit notifications and of their timers, the first exit of each request is
\* honoured and answered on the response of that request: a step taken for one
\* request leaves the other request as it is.
C28_RequestsDoNotInterfere ==
  /\ [](\A r \in Requests : FirstExitHonoured(r))
  /\ [][ \A r, q \in Requests :
           (r # q /\ rq'[r] # rq[r]) => rq'[q] = rq[q] ]_vars

\* Both requests were answered, each for its own first exit: r1 for success,
\* r2 for error, and the second exit notified for r2 changed nothing for r1.
C28_Witness ==
  /\ rq["r1"].pc = "responded"
  /\ rq["r2"].pc = "responded"
  /\ rq["r1"].runs = <<"success">>
  /\ rq["r2"].runs = <<"error">>
  /\ rq["r1"].notified = <<"success">>
  /\ Len(rq["r2"].notified) = 2
  /\ rq["r1"].res.statusCode = Num(200)
  /\ rq["r2"].res.statusCode = Num(500)

\* What this package has written to the response of the request r: the
\* status, the headers, the body, the calls of response methods.
Written(r) ==
  << rq[r].res.statusCode, rq[r].res.headers, rq[r].res.body,
     rq[r].res.payload, rq[r].res.calls >>

\* The request r waits for its timer.
Waiting(r) == rq[r].pc = "latency"

\* C29: with a simulated latency, the first exit notified for a request only
\* starts the wait; until the timer fires this package writes nothing to the
\* response (no header, no status, no body), and an exit notified meanwhile is
\* dropped; when the timer fires, the strategy of the first exit runs, with
\* the output of the first exit; and the timer does fire.
C29_LatencyDefersTheResponse ==
  /\ [](\A r \in Requests :
          /\ Waiting(r) =>
               /\ options.simulateLatency # 0
               /\ Written(r) = << FreshRes.statusCode, FreshRes.headers, FreshRes.body,
                                  FreshRes.payload, FreshRes.calls >>
               /\ rq[r].exitAttempts = << rq[r].notified[1] >>
               /\ rq[r].runs = << >>
          /\ (options.simulateLatency # 0 /\ rq[r].pc = "awaiting") => rq[r].notified = << >>)
  /\ [][ \A r \in Requests :
           /\ (rq[r].pc = "awaiting" /\ rq'[r].pc # "awaiting" /\ options.simulateLatency # 0)
                => Waiting(r)'
           /\ (Waiting(r) /\ Waiting(r)' /\ rq'[r].notified # rq[r].notified)
                => /\ rq'[r].exitAttempts = rq[r].exitAttempts
                   /\ rq'[r].output = rq[r].output
                   /\ rq'[r].res = rq[r].res
           /\ (Waiting(r) /\ ~Waiting(r)')
                => /\ rq'[r].pc \in {"responded", "raised"}
                   /\ rq'[r].runs = << rq[r].notified[1] >>
                   /\ rq'[r].output = rq[r].output
                   /\ \E host \in HostsFor(rq[r].notified[1], responses[rq[r].notified[1]],
                                           rq[r].res) :
                        rq'[r].res = Afterwards(rq[r].res, rq[r].notified[1],
                                                responses[rq[r].notified[1]], rq[r].output,
                                                options, IS_RUNNING_IN_PRODUCTION, host).res
         ]_vars
  /\ \A r \in Requests : Waiting(r) ~> ~Waiting(r)

\* After a wait during which a second exit was notified, the response was made
\* for the first exit, with its output.
C29_Witness ==
  \E r \in Requests :
    /\ options.simulateLatency # 0
    /\ rq[r].pc = "responded"
    /\ rq[r].notified = <<"success", "error">>
    /\ rq[r].runs = <<"success">>
    /\ rq[r].output = Str("hello world!")
    /\ rq[r].res.payload = Str("hello world!")
    /\ <<"X-Exit", "success">> \in rq[r].res.headers

\* The exceptions of an encoding strategy: a capability of the host that is
\* missing (redirect, view, serverError), view locals that are not a
\* dictionary, a custom response method that is missing, not a function, or
\* that throws.
EncodingFailures ==
  { "noRedirect", "notAFunction", "noView", "viewLocals", "noServerError",
    "dynamicMissing", "dynamicNotFunction", "dynamicThrew" }

\* The strategy that ran for the request r threw, and the catch block of
\* `afterwards` caught the exception (and logged it).
EncodingFailed(r) ==
  /\ rq[r].pc \in {"responded", "raised"}
  /\ rq[r].threw \in EncodingFailures

\* The request r was answered by the catch block: a 500 with the message in
\* development, the bare status in production.
AnsweredWith500(r) ==
  /\ rq[r].pc = "responded"
  /\ rq[r].res.statusCode = Num(500)
  /\ rq[r].res.headersSent
  /\ rq[r].res.payload = Undefined
  /\ IF IS_RUNNING_IN_PRODUCTION
     THEN LastCall(r) = "sendStatus" /\ rq[r].res.body = "status text"
     ELSE LastCall(r) = "send" /\ rq[r].res.body = "errMsg"

\* C30: whenever an encoding strategy fails, the request is answered with the
\* status 500, with the message in development and the bare status in
\* production.
C30_EncodingFailureIs500 ==
  \A r \in Requests : EncodingFailed(r) => AnsweredWith500(r)

\* The same, for the requests whose response the implementation had not begun
\* to send itself when the strategy ran.
EncodingFailureIs500UnlessAlreadySent ==
  \A r \in Requests : (EncodingFailed(r) /\ ~rq[r].sentAtDispatch) => AnsweredWith500(r)

\* The host has no res.serverError: the error exit was answered by the catch
\* block, with the message (development).
C30_Witness ==
  \E r \in Requests :
    /\ EncodingFailed(r)
    /\ rq[r].threw = "noServerError"
    /\ ~IS_RUNNING_IN_PRODUCTION
    /\ AnsweredWith500(r)

\* The step in which the stream output of the request r emits its first error.
FirstStreamError(r) == rq[r].strm \in {"piping", "ended"} /\ rq'[r].strm = "errored"

\* The step logs the error: this package does, or it hands the error to the
\* res.serverError of the host.
ErrorIsLogged(r) ==
  \/ rq'[r].errors # rq[r].errors
  \/ /\ Len(rq'[r].res.calls) > Len(rq[r].res.calls)
     /\ rq'[r].res.calls[Len(rq'[r].res.calls)] = "serverError"

\* The step leaves the status, the headers and the body as they were.
NothingFurtherWritten(r) ==
  /\ rq'[r].res.statusCode = rq[r].res.statusCode
  /\ rq'[r].res.headers = rq[r].res.headers
  /\ rq'[r].res.body = rq[r].res.body
  /\ rq'[r].res.payload = rq[r].res.payload

\* C31: when the stream output emits an error during the transfer, the error
\* is logged; a response that is not finished becomes a 500 response; on a
\* finished response nothing further is written.
C31_StreamErrorIsLoggedAnd500 ==
  [][ \A r \in Requests :
        FirstStreamError(r) =>
          /\ ErrorIsLogged(r)
          /\ IF rq[r].res.finished
             THEN NothingFurtherWritten(r)
             ELSE rq'[r].res.statusCode = Num(500) /\ rq'[r].res.finished
    ]_vars

\* What the listener does: on a response whose head is not sent, a 500 and the
\* error logged or handed to res.serverError; on a response whose head is sent,
\* the response is ended as it is, and the error is not logged (at most the
\* exception of the write on a finished response is).
StreamErrorBySentHead ==
  [][ \A r \in Requests :
        FirstStreamError(r) =>
          IF rq[r].res.headersSent
          THEN /\ NothingFurtherWritten(r)
               /\ rq'[r].errors \in {rq[r].errors, rq[r].errors \o <<"Consistency violation">>}
               /\ rq'[r].res.finished
          ELSE /\ ErrorIsLogged(r)
               /\ rq'[r].res.statusCode = Num(500)
               /\ rq'[r].res.finished
    ]_vars

\* The stream failed before the head was sent, on a host without
\* res.serverError, in development: a 500 with the error, which was logged.
C31_Witness ==
  \E r \in Requests :
    /\ rq[r].strm = "errored"
    /\ ~IS_RUNNING_IN_PRODUCTION
    /\ rq[r].errors = <<"download">>
    /\ rq[r].res.statusCode = Num(500)
    /\ rq[r].res.body = "inspect"
    /\ LastCall(r) = "send"

\* The stream failed after its first chunk: the response was ended and nothing
\* was logged.
StreamErrorAfterFirstChunk ==
  \E r \in Requests :
    /\ rq[r].strm = "errored"
    /\ rq[r].errors = << >>
    /\ LastCall(r) = "end"
    /\ rq[r].res.statusCode # Num(500)

\* C32: no error that a stream or buffer output emits goes unhandled: the
\* first one and every later one finds a listener of this package.
C32_NoStreamErrorUncaught ==
  \A r \in Requests : ~rq[r].uncaught

\* The first error of a stream is heard, whatever the listener's own write
\* does: the step of the first error leaves nothing uncaught.
FirstStreamErrorIsCaught ==
  [][ \A r \in Requests : FirstStreamError(r) => ~rq'[r].uncaught ]_vars

\* The first error of the stream was heard, and the exception of the
\* listener's own write (on a finished response) was caught and logged.
C32_Witness ==
  \E r \in Requests :
    /\ rq[r].strm = "errored"
    /\ ~rq[r].uncaught
    /\ rq[r].errors = <<"Consistency violation">>

\* The content types of the response of the request r, in the record `rec`.
ContentTypes(rec) == { h[2] : h \in { x \in rec.res.headers : x[1] = "Content-Type" } }

\* The step in which the standard strategy starts piping the output of r.
PipeStarts(r) == rq[r].strm = "none" /\ rq'[r].strm = "piping"

\* C33: when the standard strategy pipes a stream or a buffer, the content
\* type of the response is octet-stream, unless the implementation has set a
\* content type, which is then left as it is.
C33_PipedAsOctetStream ==
  [][ \A r \in Requests :
        PipeStarts(r) =>
          ContentTypes(rq'[r]) = IF ContentTypes(rq[r]) # {}
                                 THEN ContentTypes(rq[r])
                                 ELSE {"application/octet-stream"}
    ]_vars

\* What the strategy does: it leaves the content type as it finds it, set or
\* not.
PipeLeavesContentType ==
  [][ \A r \in Requests : PipeStarts(r) => ContentTypes(rq'[r]) = ContentTypes(rq[r]) ]_vars

\* A buffer is piped with the content type that the implementation has set.
C33_Witness ==
  \E r \in Requests :
    /\ rq[r].strm = "piping"
    /\ IsBuffer(rq[r].output)
    /\ ContentTypes(rq[r]) = {"text/csv"}

\* A stream is piped with no content type at all.
PipedWithoutContentType ==
  \E r \in Requests :
    /\ rq[r].strm = "piping"
    /\ IsStream(rq[r].output)
    /\ ContentTypes(rq[r]) = {}

\* `afterwards` ran for the request r on a response that was not begun, and
\* reached the default case of its switch: the responseType of the plan is
\* none of the built-in ones, and the exit is not the error exit with an output
\* that is handled before the switch.
DefaultCaseRan(r) ==
  /\ rq[r].pc \in {"responded", "raised"}
  /\ ~rq[r].sentAtDispatch
  /\ Plan(r).responseType \notin RecognizedResponseTypes
  /\ ~ViewHeaderFails(r)
  /\ ~(rq[r].runs[1] = "error" /\ PropertyReadThrows(rq[r].output))
  /\ ~IsValidationError(rq[r].runs[1], rq[r].output)

\* The number of calls of the response method that the responseType names.
Invocations(r) ==
  Cardinality({ i \in 1..Len(rq[r].res.calls) : rq[r].res.calls[i] = "dynamic" })

\* C34: for a responseType that is none of the built-in ones, a response
\* method of that name that is missing or not a function makes the request
\* fail with a diagnostic, and is not called; otherwise the status code of the
\* plan is set and the method is called once, with the output, or with nothing
\* when the output is null.
C34_CustomResponseMethod ==
  \A r \in Requests :
    DefaultCaseRan(r) =>
      CASE rq[r].capability[1] \in {"missing", "notFunction"} ->
             /\ rq[r].threw = (IF rq[r].capability[1] = "missing"
                               THEN "dynamicMissing" ELSE "dynamicNotFunction")
             /\ Invocations(r) = 0
             /\ AnsweredWith500(r)
        [] rq[r].capability[1] = "ok" ->
             /\ rq[r].threw = ""
             /\ rq[r].res.statusCode = Plan(r).statusCode
             /\ Invocations(r) = 1
             /\ rq[r].res.calls = <<"dynamic">>
             /\ rq[r].res.payload = (IF IsNull(rq[r].output) THEN Undefined ELSE rq[r].output)
        [] OTHER ->
             rq[r].threw = "dynamicThrew"

\* The method res.notFound was called once, with nothing, for a null output,
\* and with the status code of the plan.
C34_Witness ==
  \E r \in Requests :
    /\ DefaultCaseRan(r)
    /\ Plan(r).responseType = Str("notFound")
    /\ rq[r].capability = <<"ok">>
    /\ IsNull(rq[r].output)
    /\ rq[r].res.calls = <<"dynamic">>
    /\ rq[r].res.payload = Undefined
    /\ rq[r].res.statusCode = Num(201)

\* The host has no method of that name: the diagnostic, and no call.
CustomResponseMethodMissing ==
  \E r \in Requests :
    /\ DefaultCaseRan(r)
    /\ rq[r].capability = <<"missing">>
    /\ rq[r].threw = "dynamicMissing"
    /\ Invocations(r) = 0

\* The route declares no file input: the `files` option is not given, or it is
\* an empty list.
NoFileInputs == FileParamNames(options) = {}

\* C35: the accessor of the uploaded files (req.file) is required only when a
\* file input is declared: on a route with no file input, the `files` option
\* being absent or an empty list, no request is refused for want of req.file.
C35_ReqFileOnlyForFileInputs ==
  \A r \in Requests :
    (Len(rq[r].req) = 1 /\ NoFileInputs) => rq[r].refusedFor # "req.file"

\* What holds: without the `files` option, a request is handled whether it has
\* req.file or not; and the arguments hold an upstream for the names of the
\* option and for nothing else.
ReqFileOnlyForFilesOption ==
  /\ ~options.files.isArray =>
       \A req \in Reqs : Received(IdleRequest, req, TRUE, options, inputs).pc = "awaiting"
  /\ \A r \in Requests :
       /\ (Len(rq[r].req) = 1 /\ ~options.files.isArray) => rq[r].refusedFor # "req.file"
       /\ Bound(r) =>
            \A n \in DOMAIN rq[r].argins :
              (rq[r].argins[n].t = "upstream") <=> (n \in FileParamNames(options))

\* A file input is declared and the request has req.file: the input is bound
\* to the upstream of that name.
C35_Witness ==
  \E r \in Requests :
    /\ Bound(r)
    /\ FileParamNames(options) = {"avatar"}
    /\ rq[r].req[1].file
    /\ rq[r].argins["avatar"] = Upstream("avatar")

\* The `files` option is an empty list and the request has no req.file: the
\* handler throws.
EmptyFilesNeedsReqFile ==
  \E r \in Requests :
    /\ options.files = [ isArray |-> TRUE, names |-> << >> ]
    /\ Len(rq[r].req) = 1
    /\ ~rq[r].req[1].file
    /\ rq[r].pc = "refused"
    /\ rq[r].refusedFor = "req.file"

\* The step in which an upstream of the request r emits an error.
UpstreamErrored(r) ==
  rq'[r].upstreamErrors # rq[r].upstreamErrors \/ (rq'[r].uncaught /\ ~rq[r].uncaught)

\* C36: every name of the `files` option is bound to an upstream that has a
\* listener of `error` before the machine is run; an error of an upstream, at
\* any later point, is logged by that listener: it is never thrown by the
\* emitter, and it changes nothing of the response nor of the progress of the
\* request.
C36_UpstreamErrorsAreOnlyLogged ==
  /\ [](\A r \in Requests :
          /\ ~rq[r].uncaught
          /\ rq[r].pc \in {"awaiting", "latency", "responded", "raised"} =>
               \A n \in FileParamNames(options) :
                 /\ n \in DOMAIN rq[r].argins
                 /\ rq[r].argins[n].t = "upstream"
                 /\ n \in rq[r].listening)
  /\ [][ \A r \in Requests :
           UpstreamErrored(r) =>
             /\ Len(rq'[r].upstreamErrors) = Len(rq[r].upstreamErrors) + 1
             /\ rq'[r].res = rq[r].res
             /\ rq'[r].pc = rq[r].pc
             /\ rq'[r].exitAttempts = rq[r].exitAttempts
       ]_vars

\* Two upstreams failed: both errors were logged, and the response is the one
\* of the exit.
C36_Witness ==
  \E r \in Requests :
    /\ rq[r].pc = "responded"
    /\ rq[r].upstreamErrors = <<"avatar", "cover">>
    /\ ~rq[r].uncaught
    /\ rq[r].output = Str("hello world!")
    /\ rq[r].res.payload = Str("hello world!")
    /\ rq[r].res.statusCode = Num(200)

\* s is a prefix of t.
IsPrefix(s, t) == Len(s) <= Len(t) /\ SubSeq(t, 1, Len(s)) = s

\* C37: the log of the exit attempts of a request is append-only and holds,
\* in order, the name of every exit notified so far; the warning of an extra
\* notification shows the whole history of the attempts made before it.
C37_ExitAttemptsAreTheHistory ==
  /\ [](\A r \in Requests :
          /\ rq[r].exitAttempts = rq[r].notified
          /\ \A i \in 1..Len(rq[r].warnings) :
               rq[r].warnings[i].attempts = SubSeq(rq[r].notified, 1, i))
  /\ [][ \A r \in Requests : IsPrefix(rq[r].exitAttempts, rq'[r].exitAttempts) ]_vars

\* What the log is: append-only, and never more than the first exit notified;
\* every warning shows that one name.
ExitAttemptsAreTheFirstExit ==
  /\ [](\A r \in Requests :
          /\ rq[r].exitAttempts = (IF rq[r].notified = << >> THEN << >>
                                    ELSE << rq[r].notified[1] >>)
          /\ \A i \in 1..Len(rq[r].warnings) :
               /\ rq[r].warnings[i].attempts = << rq[r].notified[1] >>
               /\ rq[r].warnings[i].exit = rq[r].notified[i + 1])
  /\ [][ \A r \in Requests : IsPrefix(rq[r].exitAttempts, rq'[r].exitAttempts) ]_vars

\* The first exit of a request was notified: the log holds its name.
C37_Witness ==
  \E r \in Requests :
    /\ rq[r].notified = <<"error">>
    /\ rq[r].exitAttempts = <<"error">>
    /\ rq[r].warnings = << >>

\* Two exits were notified: the log, and the warning, hold the first only.
SecondAttemptNotRecorded ==
  \E r \in Requests :
    /\ rq[r].notified = <<"success", "error">>
    /\ rq[r].exitAttempts = <<"success">>
    /\ rq[r].warnings = << [exit |-> "error", attempts |-> <<"success">>] >>

\* The exits for which the handler builds a callback: the keys of the exits of
\* the machine, which are the plan itself (wetMachine.getDef().exits = responses).
CallbackNames == DOMAIN responses

\* C38: once the action is built, the plan has one entry for every exit that
\* the machine declares, one for success and one for error, declared or not,
\* and no other, whatever the exits for which a response is configured; every
\* callback that is handed to the machine is for an exit of the plan.
C38_OnePlanEntryPerExit ==
  /\ built = "ok" =>
       /\ DOMAIN responses = DOMAIN given \cup {"success", "error"}
       /\ CallbackNames \subseteq DOMAIN responses
       /\ \A e \in DOMAIN responses :
            IsString(responses[e].responseType) /\ IsNumber(responses[e].statusCode)
  /\ LET n == NormalizeResponses(configuredResponses, given)
     IN  n.err = "" => DOMAIN n.responses = DOMAIN given \cup {"success", "error"}

\* Every exit fired for a request has its entry in the plan.
FiredExitHasPlanEntry ==
  \A r \in Requests :
    \A i \in 1..Len(rq[r].notified) : rq[r].notified[i] \in DOMAIN responses

\* The machine declares success and error, and a response is configured for
\* an exit that it does not declare: the plan has no entry for that exit.
C38_Witness ==
  /\ built = "ok"
  /\ DOMAIN given = {"success", "error"}
  /\ DOMAIN configuredResponses = {"whatever"}
  /\ DOMAIN responses = {"success", "error"}

\* The machine declares the exit `whatever` alone: the plan has success and
\* error too.
DefaultExitsInPlan ==
  /\ built = "ok"
  /\ DOMAIN given = {"whatever"}
  /\ DOMAIN responses = {"success", "error", "whatever"}

\* `afterwards` ran for the request r, on a response that was not begun, for an
\* exit that was given the invalid-arguments error of the engine.
GivenInvalidArgins(r) ==
  /\ rq[r].pc \in {"responded", "raised"}
  /\ ~rq[r].sentAtDispatch
  /\ rq[r].output = UsageError(TRUE)

\* The 400 response is chosen exactly for the error exit, whatever its plan;
\* any other exit takes the strategy of its responseType.
ValidationCaseByExitName(r) ==
  IF rq[r].runs[1] = "error"
  THEN AnsweredWith400(r)
  ELSE /\ rq[r].strategy = StrategyNamed(Plan(r).responseType)
       /\ rq[r].res.statusCode # Num(400)
       /\ "badRequest" \notin { rq[r].res.calls[i] : i \in 1..Len(rq[r].res.calls) }

\* C39: the 400 response to a validation failure is chosen by the name of the
\* exit, before the responseType is looked at: the error exit given the
\* invalid-arguments error of the engine is answered with the 400 whatever the
\* responseType of its plan; any other exit given the same output takes the
\* strategy of its responseType.
C39_ValidationCaseByExitName ==
  \A r \in Requests : GivenInvalidArgins(r) => ValidationCaseByExitName(r)

\* The same, for the requests whose development headers can be written.
ValidationCaseByExitNameUnlessHeaderFails ==
  \A r \in Requests :
    (GivenInvalidArgins(r) /\ ~ViewHeaderFails(r)) => ValidationCaseByExitName(r)

\* The plan of the error exit has the responseType redirect: the validation
\* failure is answered with the 400 all the same.
C39_Witness ==
  \E r \in Requests :
    /\ GivenInvalidArgins(r)
    /\ rq[r].runs[1] = "error"
    /\ Plan(r).responseType = Str("redirect")
    /\ AnsweredWith400(r)

\* The same output on the success exit, whose responseType is json: it is sent
\* by the json strategy.
InvalidArginsOnAnotherExit ==
  \E r \in Requests :
    /\ GivenInvalidArgins(r)
    /\ rq[r].runs[1] = "success"
    /\ Plan(r).responseType = Str("json")
    /\ rq[r].strategy = "json"
    /\ rq[r].res.payload = UsageError(TRUE)

====
